---- MODULE Spec2Model ----
(***************************************************************************)
(* A model of the xx-url networking stack.                                 *)
(*                                                                         *)
(* Part 1: the WebSocket framing engine and session (src/ws/stream.rs,     *)
(* src/ws/conn.rs, src/ws/mod.rs, src/ws/wire.rs).  The live session code  *)
(* is stream.rs (mod.rs declares `mod stream`); web_socket.rs is an older  *)
(* variant that mod.rs does not compile in.                                *)
(*                                                                         *)
(* Handlers are pure operators over a session record and the bytes the     *)
(* socket currently holds; the actions apply them to one session under an  *)
(* arbitrary peer (Spec) or to two sessions joined by a reliable in-order  *)
(* connection (SpecPair).  A blocking read is modelled at its completion:  *)
(* the action is enabled once the bytes it needs (or EOF) are there.       *)
(***************************************************************************)
EXTENDS Integers, Sequences, FiniteSets, TLC

VARIABLES
    ws,     \* session -> WebSocket fields (conn.rs:16-24) and Shared (stream.rs:99-106)
    sock,   \* session -> the connection as this session's socket sees it
    task,   \* session -> the half blocked in close() and the time it has waited
    res,    \* session -> what the last call on the session returned
    call,   \* a call of a function on its own: its arguments and what it returned
    body,   \* an HTTP response Body: its transfer state and its reader's buffer
    conn,   \* the connection under the Body: bytes arrived, bytes still to come
    rd      \* what the reads of the Body returned

vars == <<ws, sock, task, res, call, body, conn, rd>>

\* what the calls on a WebSocket session leave alone
beside_ws == <<call, body, conn, rd>>

\* what the reads of an HTTP body leave alone
beside_http == <<ws, sock, task, res, call>>

----------------------------------------------------------------------------
(* Bounds of the model *)

MaxRx == 8              \* bytes in flight towards a session of a pair before a send blocks
CloseTicks == 2         \* close_timeout, in clock ticks
HUGE == 1073741824      \* every length from here up is held as this one

(* Program constants *)

MAX_LENGTH == 125       \* ControlFrame::MAX_LENGTH, 0x7d
LEN16 == 126            \* 0x7e: a u16 length follows
LEN64 == 127            \* 0x7f: a u64 length follows
U16_MAX == 65535

Min(a, b) == IF a < b THEN a ELSE b

\* F(e), with e worked out once, as a `let` binding of the code is
Let(e, F(_)) == CHOOSE y \in {F(x) : x \in {e}} : TRUE

----------------------------------------------------------------------------
(* wire.rs: opcodes and the two-byte base header *)

Ops == {"Continuation", "Text", "Binary", "Close", "Ping", "Pong"}

OpCode(op) ==
    CASE op = "Continuation" -> 0
      [] op = "Text" -> 1
      [] op = "Binary" -> 2
      [] op = "Close" -> 8
      [] op = "Ping" -> 9
      [] op = "Pong" -> 10
      [] OTHER -> 15          \* Invalid = -1, truncated to the u4 field

\* Op::from_u8(..).unwrap_or_default(): unknown codes become Invalid
OpFromU8(n) ==
    CASE n = 0 -> "Continuation"
      [] n = 1 -> "Text"
      [] n = 2 -> "Binary"
      [] n = 8 -> "Close"
      [] n = 9 -> "Ping"
      [] n = 10 -> "Pong"
      [] OTHER -> "Invalid"

is_control(op) == op \in {"Ping", "Pong", "Close"}

----------------------------------------------------------------------------
(* Big-endian integers *)

\* Lengths are u64; the model holds them exactly below HUGE and as HUGE above.
RECURSIVE FromBeAcc(_, _)
FromBeAcc(acc, bytes) ==
    IF bytes = <<>> THEN acc
    ELSE IF acc >= HUGE \div 256 THEN HUGE
    ELSE FromBeAcc(acc * 256 + Head(bytes), Tail(bytes))

FromBe(bytes) == FromBeAcc(0, bytes)

RECURSIVE ToBe(_, _)
ToBe(n, width) ==
    IF width = 0 THEN <<>>
    ELSE Append(ToBe(n \div 256, width - 1), n % 256)

----------------------------------------------------------------------------
(* stream.rs:24-97: the frame header codec *)

NoMask == <<>>

ExtLen(len7) == IF len7 < LEN16 THEN 0 ELSE IF len7 = LEN16 THEN 2 ELSE 8

decode_length(len7, ext) == IF len7 < LEN16 THEN len7 ELSE FromBe(ext)

encode_len(len) ==
    IF len < LEN16 THEN [len7 |-> len, ext |-> <<>>]
    ELSE IF len <= U16_MAX THEN [len7 |-> LEN16, ext |-> ToBe(len, 2)]
    ELSE [len7 |-> LEN64, ext |-> ToBe(len, 8)]

NoHeader == [fin |-> FALSE, op |-> "Invalid", mask |-> NoMask, len |-> 0]

\* FrameHeader::read over the bytes `buf` the connection holds; `eof` says that
\* no more will come.  st: "Some" | "None" (EOF at a frame boundary) |
\* "Err" (EOF inside the header) | "Pending" (the read is still blocked).
FrameHeader_read(buf, eof) ==
    IF Len(buf) < 2
    THEN [st |-> IF ~eof THEN "Pending" ELSE IF buf = <<>> THEN "None" ELSE "Err",
          hdr |-> NoHeader, n |-> IF eof THEN Len(buf) ELSE 0]
    ELSE LET len7 == buf[2] % 128
             masked == buf[2] \div 128
             need == 2 + ExtLen(len7) + 4 * masked
         IN IF Len(buf) < need
            THEN [st |-> IF eof THEN "Err" ELSE "Pending",
                  hdr |-> NoHeader, n |-> IF eof THEN Len(buf) ELSE 0]
            ELSE [st |-> "Some",
                  hdr |-> [fin |-> buf[1] \div 128 # 0,
                           op |-> OpFromU8(buf[1] % 16),
                           mask |-> IF masked # 0
                                    THEN SubSeq(buf, 3 + ExtLen(len7), need)
                                    ELSE NoMask,
                           len |-> decode_length(len7, SubSeq(buf, 3, 2 + ExtLen(len7)))],
                  n |-> need]

\* FrameHeader::write: fin | resv = 0 | op, masked | len7, extended length, key
FrameHeader_write(h) ==
    LET e == encode_len(h.len)
    IN <<(IF h.fin THEN 128 ELSE 0) + OpCode(h.op),
         (IF h.mask # NoMask THEN 128 ELSE 0) + e.len7>> \o e.ext \o h.mask

----------------------------------------------------------------------------
(* mod.rs:222-241: masking *)

RECURSIVE XorBits(_, _, _)
XorBits(a, b, n) ==
    IF n = 0 THEN 0
    ELSE ((a + b) % 2) + 2 * XorBits(a \div 2, b \div 2, n - 1)

Xor8(a, b) == XorBits(a, b, 8)

rotate_left8(key) == <<key[2], key[3], key[4], key[1]>>

\* the byte loops: *byte ^= (mask >> 24) as u8; mask = mask.rotate_left(8)
RECURSIVE MaskBytes(_, _)
MaskBytes(data, key) ==
    IF data = <<>> THEN [data |-> <<>>, key |-> key]
    ELSE LET rest == MaskBytes(Tail(data), rotate_left8(key))
         IN [data |-> <<Xor8(Head(data), key[1])>> \o rest.data, key |-> rest.key]

\* a variant without to_be(): on a little-endian machine the key's bytes
\* meet the data in reverse order
MaskWords_native(data, key) == [i \in 1..Len(data) |-> Xor8(data[i], key[4 - ((i - 1) % 4)])]

\* the u32 loop: *val ^= mask.to_be(), the key's bytes in memory order
MaskWords(data, key) == [i \in 1..Len(data) |-> Xor8(data[i], key[((i - 1) % 4) + 1])]

\* `align` is the number of bytes before the first 4-byte boundary of the buffer
mask(data, key, align) ==
    LET npre == Min(align, Len(data))
        nmid == 4 * ((Len(data) - npre) \div 4)
        pre == MaskBytes(SubSeq(data, 1, npre), key)
        mid == MaskWords(SubSeq(data, npre + 1, npre + nmid), pre.key)
        post == MaskBytes(SubSeq(data, npre + nmid + 1, Len(data)), pre.key)
    IN pre.data \o mid \o post.data

----------------------------------------------------------------------------
(* stream.rs:99-151: Shared, the close state *)

CloseStates == {"None", "Read", "Write", "Both"}

can_read(s) == ~(s.close_state # "None" /\ s.close_state # "Write")

\* a variant that only looks for a Close sent, not for Both
can_write_unless_sent(s) == s.close_state # "Write"

can_write(s) == ~(s.close_state # "None" /\ s.close_state # "Read")

\* a variant in which the reader never finds the handshake complete
should_close_never(s) == FALSE

should_close(s) == s.close_state = "Both"

\* a variant that stores the direction it is given over the one it holds
shutdown_overwrite(cur, how) ==
    [state |-> how, promoted |-> cur # "None" /\ cur # how]

\* Shared::shutdown: the new state and whether this call promoted it to Both
shutdown(cur, how) ==
    IF cur = how THEN [state |-> cur, promoted |-> FALSE]
    ELSE IF cur = "None" THEN [state |-> how, promoted |-> FALSE]
    ELSE [state |-> "Both", promoted |-> TRUE]

----------------------------------------------------------------------------
(* Frames as the iterator yields them and as send_frame takes them *)

NoFrame == [kind |-> "None", code |-> 0, payload |-> <<>>]

NoMessage == [op |-> "None", buf |-> <<>>]

NO_STATUS_CODE == 1005  \* CloseCode::NoStatusCode
NO_CLOSE == 1006        \* CloseCode::NoClose

Zeros(n) == [i \in 1..n |-> 0]

\* String::from_utf8: well-formed UTF-8 (lead byte, then continuation bytes)
RECURSIVE Utf8(_)
Utf8(b) ==
    IF b = <<>> THEN TRUE
    ELSE LET c == b[1]
             n == IF c < 128 THEN 1
                  ELSE IF c >= 194 /\ c <= 223 THEN 2
                  ELSE IF c >= 224 /\ c <= 239 THEN 3
                  ELSE IF c >= 240 /\ c <= 244 THEN 4
                  ELSE 0
         IN /\ n > 0
            /\ Len(b) >= n
            /\ \A i \in 2..n : b[i] >= 128 /\ b[i] <= 191
            /\ (c = 224 => b[2] >= 160)
            /\ (c = 237 => b[2] <= 159)
            /\ (c = 240 => b[2] >= 144)
            /\ (c = 244 => b[2] <= 143)
            /\ Utf8(SubSeq(b, n + 1, Len(b)))

----------------------------------------------------------------------------
(* stream.rs:200-293: Reader *)

\* What a reader call returns: the session afterwards, the bytes it consumed,
\* its outcome, the header or frame it yields, and whether it must run close().
Ret(s, n, ret, hdr, frame, closing) ==
    [s |-> s, n |-> n, ret |-> ret, hdr |-> hdr, frame |-> frame, closing |-> closing]

Pending(s) == Ret(s, 0, "Pending", NoHeader, NoFrame, FALSE)

\* a call that blocked changed nothing the caller can see
Block(s, r) == IF r.ret = "Pending" THEN Pending(s) ELSE r

\* self.data.shutdown(Shutdown::Read)
ShutRead(s) == [s EXCEPT !.close_state = shutdown(s.close_state, "Read").state]

\* stream.rs:244: *self.expect_continuation = !frame.fin
Expecting(s, frame) == [s EXCEPT !.expect_continuation = ~frame.fin]

\* stream.rs:251-255: the header is returned; `open` is history: whether the
\* last data header this reader returned had fin = false
Accepted(s, frame) ==
    IF frame.op = "Close" THEN ShutRead(s)
    ELSE IF is_control(frame.op) THEN s
    ELSE [s EXCEPT !.expect_continuation = ~frame.fin, !.open = ~frame.fin]

\* a variant whose length limit is off by one
InvalidControlFrame_off_by_one(frame) == ~frame.fin \/ frame.len > MAX_LENGTH + 1

\* stream.rs:223-231: "Fin not set on control frame", "Control frame too long"
InvalidControlFrame(frame) == ~frame.fin \/ frame.len > MAX_LENGTH

\* stream.rs:220-255: the checks on a parsed header, in the order of the code
check_header(s, frame, n) ==
    CASE frame.op = "Invalid" -> Ret(s, n, "InvalidOpcode", frame, NoFrame, FALSE)
      [] is_control(frame.op) /\ InvalidControlFrame(frame) ->
           Ret(s, n, "InvalidControlFrame", frame, NoFrame, FALSE)
      [] frame.op \in {"Continuation", "Text", "Binary"}
           /\ s.expect_continuation # (frame.op = "Continuation") ->
           Ret(s, n,
               IF s.expect_continuation THEN "ExpectedContinuation"
               ELSE "UnexpectedContinuation",
               frame, NoFrame, FALSE)
      [] frame.op \in {"Continuation", "Text", "Binary"}
           /\ s.expect_continuation = (frame.op = "Continuation")
           /\ frame.mask # NoMask /\ s.is_client ->
           Ret(Expecting(s, frame), n, "ServerMasked", frame, NoFrame, FALSE)
      [] OTHER ->
           IF frame.mask # NoMask /\ s.is_client
           THEN Ret(s, n, "ServerMasked", frame, NoFrame, FALSE)
           ELSE Ret(Accepted(s, frame), n, "Ok", frame, NoFrame, FALSE)

\* stream.rs:214-218 and on: what read_frame_header does with FrameHeader::read's answer
header_read(s, r) ==
    CASE r.st = "Pending" -> Pending(s)
      [] r.st = "Err" -> Ret(s, r.n, "UnexpectedEof", NoHeader, NoFrame, FALSE)
      [] r.st = "None" -> Ret(ShutRead(s), 0, "OkNone", NoHeader, NoFrame, FALSE)
      [] OTHER -> check_header(s, r.hdr, r.n)

\* Reader::read_frame_header.  `hdr` is the header parsed, also when it is rejected.
read_frame_header(s, buf, eof) ==
    IF ~can_read(s) THEN Ret(s, 0, "Shutdown", NoHeader, NoFrame, FALSE)
    ELSE Let(FrameHeader_read(buf, eof), LAMBDA r : header_read(s, r))

\* read_frame_data (stream.rs:186-198): `len` bytes off the stream.
\* st: "Ok" | "Err" (EOF inside the payload; `data` is what arrived) | "Pending"
read_frame_data(rest, len, eof) ==
    IF Len(rest) >= len THEN [st |-> "Ok", data |-> SubSeq(rest, 1, len)]
    ELSE IF eof THEN [st |-> "Err", data |-> rest]
    ELSE [st |-> "Pending", data |-> <<>>]

\* Reader::discard_frame_data for a header of `len` payload bytes: while the
\* buffer does not hold more than is left of the payload it is discarded and
\* filled again, and a fill that finds EOF is an error
discard_frame_data(rest, len, eof) ==
    IF Len(rest) > len THEN [st |-> "Ok", n |-> len]
    ELSE IF eof THEN [st |-> "Err", n |-> Len(rest)]
    ELSE [st |-> "Pending", n |-> 0]

Unmask(data, key, align) == IF key = NoMask THEN data ELSE mask(data, key, align)

Drop(seq, n) == SubSeq(seq, n + 1, Len(seq))

----------------------------------------------------------------------------
(* stream.rs:295-417: Frames *)

\* a variant that takes a payload of one byte for a close code
CloseOf_short_code(control) ==
    IF Len(control) >= 1
    THEN [kind |-> "Close", code |-> FromBe(SubSeq(control, 1, Min(2, Len(control)))),
          payload |-> Drop(control, 2)]
    ELSE [kind |-> "Close", code |-> NO_STATUS_CODE, payload |-> control]

\* stream.rs:333-338: the close code and what is left of the payload
CloseOf(control) ==
    IF Len(control) >= 2
    THEN [kind |-> "Close", code |-> FromBe(SubSeq(control, 1, 2)),
          payload |-> Drop(control, 2)]
    ELSE [kind |-> "Close", code |-> NO_STATUS_CODE, payload |-> control]

\* stream.rs:325-354: the control frame whose payload `control` was read
control_frame(s, frame, n, control) ==
    IF frame.op = "Close"
    THEN Ret(s, n, "Frame", frame, CloseOf(control), should_close(s))
    ELSE Ret(s, n, "Frame", frame, [kind |-> frame.op, code |-> 0, payload |-> control],
             FALSE)

\* the control branch of Frames::read_frame (stream.rs:315-354); d is read_frame_data's answer
read_control(s, frame, n, d, total, align) ==
    CASE d.st = "Pending" -> Pending(s)
      [] d.st = "Err" -> Ret(s, total, "UnexpectedEof", NoHeader, NoFrame, FALSE)
      [] OTHER -> control_frame(s, frame, n + frame.len, Unmask(d.data, frame.mask, align))

\* a variant that tags the message with the frame at hand
Current_of_frame(s, frame) == [op |-> frame.op, buf |-> s.current_message.buf]

\* stream.rs:359: current_message.get_or_insert_with(|| (frame.op, Vec::new()))
Current(s, frame) ==
    IF s.current_message = NoMessage THEN [op |-> frame.op, buf |-> <<>>]
    ELSE s.current_message

\* stream.rs:383-393: the message is complete
message(s, frame, n, op, whole) ==
    CASE op = "Binary" ->
           Ret(s, n, "Frame", frame, [kind |-> "Binary", code |-> 0, payload |-> whole], FALSE)
      [] op = "Text" /\ Utf8(whole) ->
           Ret(s, n, "Frame", frame, [kind |-> "Text", code |-> 0, payload |-> whole], FALSE)
      [] op = "Text" /\ ~Utf8(whole) -> Ret(s, n, "InvalidUtf8", NoHeader, NoFrame, FALSE)
      [] OTHER -> Ret(s, n, "Panic", NoHeader, NoFrame, FALSE)     \* unreachable!()

\* stream.rs:377-394: the payload arrived and was unmasked into the buffer
data_frame(s, frame, n, cur, whole) ==
    IF frame.fin
    THEN message([s EXCEPT !.current_message = NoMessage], frame, n, cur.op, whole)
    ELSE Ret([s EXCEPT !.current_message = [cur EXCEPT !.buf = whole]],
             n, "Continue", frame, NoFrame, FALSE)

\* a variant that forgets what the buffer already holds
remaining_of_max(max, have, len) == max >= len

\* stream.rs:361-366: max_message_length.checked_sub(buf.len()) and then
\* .checked_sub(frame.len) are both Some
remaining(max, have, len) == max >= have /\ max - have >= len

\* the data branch of Frames::read_frame (stream.rs:355-394); cur is the
\* message in progress, d is read_frame_data's answer
read_data(s, frame, n, cur, d, total, align) ==
    CASE ~remaining(s.max_message_length, Len(cur.buf), frame.len) ->
           Ret([s EXCEPT !.current_message = cur], n, "MessageTooLong",
               NoHeader, NoFrame, FALSE)
      [] d.st = "Pending" -> Pending(s)
      [] d.st = "Err" ->
           \* buf.resize(end, 0) was done; the bytes that arrived are in it
           Ret([s EXCEPT !.current_message =
                   [cur EXCEPT !.buf = cur.buf \o d.data \o Zeros(frame.len - Len(d.data))]],
               total, "UnexpectedEof", NoHeader, NoFrame, FALSE)
      [] OTHER ->
           data_frame(s, frame, n + frame.len, cur,
                      cur.buf \o Unmask(d.data, frame.mask, align))

\* stream.rs:311-395: what read_frame does with the header h that was returned
frame_body(h, buf, eof, align) ==
    CASE h.hdr.len > h.s.max_message_length ->
           Ret(h.s, h.n, "MessageTooLong", NoHeader, NoFrame, FALSE)
      [] is_control(h.hdr.op) ->
           Let(read_frame_data(Drop(buf, h.n), h.hdr.len, eof),
               LAMBDA d : read_control(h.s, h.hdr, h.n, d, Len(buf), align))
      [] OTHER ->
           Let(read_frame_data(Drop(buf, h.n), h.hdr.len, eof),
               LAMBDA d : read_data(h.s, h.hdr, h.n, Current(h.s, h.hdr), d, Len(buf), align))

\* stream.rs:302-309: what read_frame does with read_frame_header's answer h
frame_read(s, h, buf, eof, align) ==
    CASE h.ret = "OkNone" ->
           Ret(h.s, 0, "Frame", NoHeader,
               [kind |-> "Close", code |-> NO_CLOSE, payload |-> <<>>], FALSE)
      [] h.ret = "Ok" -> Block(s, frame_body(h, buf, eof, align))
      [] OTHER -> h

\* Frames::read_frame
read_frame(s, buf, eof, align) ==
    Let(read_frame_header(s, buf, eof), LAMBDA h : frame_read(s, h, buf, eof, align))

\* The frames read earlier in the same call count as consumed. A read that
\* blocks after fragments went into the message leaves the call suspended
\* with them kept ("Suspended"); a later call takes up from there.
Chain(r, q) ==
    IF q.ret = "Pending" THEN Ret(r.s, r.n, "Suspended", NoHeader, NoFrame, FALSE)
    ELSE [q EXCEPT !.n = q.n + r.n]

\* Frames::next_frame: read frames until one is yielded or a read fails
RECURSIVE next_frame(_, _, _, _)
frame_loop(r, buf, eof, align) ==
    IF r.ret # "Continue" THEN r
    ELSE Let(next_frame(r.s, Drop(buf, r.n), eof, align), LAMBDA q : Chain(r, q))

next_frame(s, buf, eof, align) ==
    Let(read_frame(s, buf, eof, align), LAMBDA r : frame_loop(r, buf, eof, align))

\* <Frames as AsyncIterator>::next
next(s, buf, eof, align) ==
    IF can_read(s) THEN next_frame(s, buf, eof, align)
    ELSE Ret(s, 0, "None", NoHeader, NoFrame, FALSE)

----------------------------------------------------------------------------
(* mod.rs:62-120: BorrowedFrame and its constructors *)

BorrowedFrame(op, close_code, payload, fin) ==
    [op |-> op, close_code |-> close_code, payload |-> payload, fin |-> fin]

NoArg == BorrowedFrame("None", 0, <<>>, FALSE)

text(payload) == BorrowedFrame("Text", 0, payload, TRUE)
binary(payload) == BorrowedFrame("Binary", 0, payload, TRUE)
text_partial(payload) == BorrowedFrame("Text", 0, payload, FALSE)
binary_partial(payload) == BorrowedFrame("Binary", 0, payload, FALSE)
ping(payload) == BorrowedFrame("Ping", 0, payload, TRUE)
pong(payload) == BorrowedFrame("Pong", 0, payload, TRUE)
close_frame(code, payload) == BorrowedFrame("Close", code, payload, TRUE)

----------------------------------------------------------------------------
(* stream.rs:419-513: Writer *)

\* What the connection does with a write: "ok" | "write_err" (the write
\* fails) | "short" (EOF: fewer bytes are taken than offered) |
\* "shutdown_err" (the write is fine, shutdown(Write) on the socket fails)
IoOutcomes == {"ok", "write_err", "short", "shutdown_err"}

Taken(bytes, io) ==
    CASE io = "write_err" -> <<>>
      [] io = "short" -> SubSeq(bytes, 1, Len(bytes) - 1)
      [] OTHER -> bytes

\* What send_frame returns: the session afterwards, its outcome, the header it
\* encoded, the bytes the connection took, whether it ran close(), and there
\* whether shutdown(Write) was done on the socket and RdHangUp is polled for.
Sent(s, ret, hdr, wrote, closing, down, poll) ==
    [s |-> s, ret |-> ret, hdr |-> hdr, wrote |-> wrote,
     closing |-> closing, down |-> down, poll |-> poll]

\* a variant in which a client sends without a mask key
Header_unmasked(s, frame) ==
    [fin |-> frame.fin, op |-> frame.op, mask |-> NoMask, len |-> Len(frame.payload)]

\* stream.rs:435-444: the header send_frame starts from
Header(s, frame) ==
    [fin |-> frame.fin, op |-> frame.op,
     mask |-> IF s.is_client THEN <<0, 0, 0, 0>> ELSE NoMask,
     len |-> Len(frame.payload)]

\* a variant that writes every fragment with the opcode it was given
Fragment_real_op(s, header) == header

\* stream.rs:454-466: the opcode on the wire and the message in progress
Fragment(s, header) ==
    IF s.last_sent_message_op # "None" THEN [header EXCEPT !.op = "Continuation"] ELSE header

Sending(s, header) ==
    [s EXCEPT !.last_sent_message_op =
        IF header.fin THEN "None" ELSE IF @ = "None" THEN header.op ELSE @]

\* stream.rs:469-485: the header, the close code of a Close, the payload
Encode(header, frame) ==
    FrameHeader_write(header)
    \o (IF header.op = "Close" THEN ToBe(frame.close_code, 2) ELSE <<>>)
    \o frame.payload

\* stream.rs:487-511: the write.  sd is Shared::shutdown(Write)'s answer for a
\* Close; when it promoted the state the write runs inside close(), whose
\* failure is only logged.
write_frame(s, header, data, sd, io) ==
    IF sd.promoted
    THEN Sent([s EXCEPT !.close_state = sd.state], "Ok", header, Taken(data, io), TRUE,
              io \in {"ok", "short"}, io \in {"ok", "short"})
    ELSE Sent([s EXCEPT !.close_state = sd.state],
              CASE io = "write_err" -> "IoError"
                [] io = "short" -> "UnexpectedEof"
                [] OTHER -> "Ok",
              header, Taken(data, io), FALSE, FALSE, FALSE)

\* a variant that leaves the close code out of the count
UserInvalidControlFrame_no_code(header) == header.len > MAX_LENGTH

\* stream.rs:447-450: header.len > 0x7d - additional
UserInvalidControlFrame(header) ==
    header.len > MAX_LENGTH - (IF header.op = "Close" THEN 2 ELSE 0)

\* stream.rs:446-467: the checks on the frame, then the write
send_checked(s, frame, header, io) ==
    CASE is_control(header.op) /\ UserInvalidControlFrame(header) ->
           Sent(s, "UserInvalidControlFrame", NoHeader, <<>>, FALSE, FALSE, FALSE)
      [] is_control(header.op) /\ header.op = "Close" /\ ~UserInvalidControlFrame(header) ->
           write_frame(s, header, Encode(header, frame), shutdown(s.close_state, "Write"), io)
      [] is_control(header.op) /\ header.op # "Close" /\ ~UserInvalidControlFrame(header) ->
           write_frame(s, header, Encode(header, frame),
                       [state |-> s.close_state, promoted |-> FALSE], io)
      [] ~is_control(header.op) /\ s.last_sent_message_op \notin {"None", header.op} ->
           Sent(s, "DataTypeMismatch", NoHeader, <<>>, FALSE, FALSE, FALSE)
      [] OTHER ->
           write_frame(Sending(s, header), Fragment(s, header),
                       Encode(Fragment(s, header), frame),
                       [state |-> s.close_state, promoted |-> FALSE], io)

\* Writer::send_frame
send_frame(s, frame, io) ==
    IF ~can_write(s) THEN Sent(s, "Shutdown", NoHeader, <<>>, FALSE, FALSE, FALSE)
    ELSE send_checked(s, frame, Header(s, frame), io)

\* WebSocket::set_max_message_length (conn.rs:53-56)
set_max_message_length(s, max) == [s EXCEPT !.max_message_length = max]

\* WebSocket::from (conn.rs:28-40) with Shared::new (stream.rs:110-118)
WebSocket_from(max, timeout, is_client) ==
    [is_client |-> is_client,
     close_state |-> "None",
     max_message_length |-> max,
     close_timeout |-> timeout,
     expect_continuation |-> FALSE,
     current_message |-> NoMessage,
     last_sent_message_op |-> "None",
     open |-> FALSE]

----------------------------------------------------------------------------
(* The connection and the calls in flight *)

Sessions == {"client", "server"}

Peer(p) == IF p = "client" THEN "server" ELSE "client"

\* max_message_length values a session is given
MessageCaps == {1, 3}

Res(fn, ret, hdr, frame, n, wrote, pre, arg) ==
    [call |-> fn, ret |-> ret, hdr |-> hdr, frame |-> frame, n |-> n,
     wrote |-> wrote, pre |-> pre, arg |-> arg]

\* no function is called on its own
NoCall == [fn |-> "none"]

\* no WebSocket session, no HTTP response
NoWs == ws = <<>> /\ sock = <<>> /\ task = <<>> /\ res = <<>>

NoHttp == body = <<>> /\ conn = <<>> /\ rd = <<>>

NoRes == Res("new", "Ok", NoHeader, NoFrame, 0, <<>>, "None", NoArg)

\* The sockets after session p consumed n bytes, wrote `wrote` and, if `down`,
\* did shutdown(Write): the peer of a pair receives the bytes and the hang-up.
\* `failed`: a write or the shutdown on p's socket failed (kept as history).
SockAfter(p, n, wrote, down, failed) ==
    [q \in DOMAIN sock |->
        IF q = p
        THEN [sock[q] EXCEPT !.rx = Drop(@, n), !.wr_shutdown = @ \/ down,
                             !.io_failed = @ \/ failed]
        ELSE [sock[q] EXCEPT !.rx = @ \o wrote, !.rdhup = @ \/ down]]

\* closing: which half is inside close(), polling for RdHangUp; elapsed: for
\* how long; reading: a next() call is suspended in the middle of a message
Idle == [closing |-> "none", elapsed |-> 0, reading |-> FALSE]

\* WebSocketError, the kinds the reader reports for what the peer sent
Violations ==
    {"InvalidOpcode", "InvalidControlFrame", "ExpectedContinuation",
     "UnexpectedContinuation", "ServerMasked", "MessageTooLong"}

InitSessions(D) ==
    /\ ws \in [D -> {WebSocket_from(m, CloseTicks, FALSE) : m \in MessageCaps}
                    \cup {WebSocket_from(m, CloseTicks, TRUE) : m \in MessageCaps}]
    /\ \A p \in D : ws[p].is_client = (p = "client")
    /\ sock = [p \in D |-> [rx |-> <<>>, rdhup |-> FALSE, wr_shutdown |-> FALSE, io_failed |-> FALSE]]
    /\ task = [p \in D |-> Idle]
    /\ res = [p \in D |-> NoRes]
    /\ call = NoCall
    /\ NoHttp

\* one session, client or server, facing an arbitrary peer
Init == \E p \in Sessions : InitSessions({p})

\* a client session and a server session on one connection
InitPair == InitSessions(Sessions)

----------------------------------------------------------------------------
(* Calls on a session *)

\* a reader call returned r; if it ran close() and `down`, shutdown(Write) was
\* done on the socket and the call now polls for RdHangUp
Returned(p, fn, r, down, failed) ==
    /\ r.ret # "Pending"
    /\ ws' = [ws EXCEPT ![p] = r.s]
    /\ sock' = SockAfter(p, r.n, <<>>, down, failed)
    /\ task' = [task EXCEPT ![p] = [closing |-> IF down THEN "reader" ELSE @.closing,
                                     elapsed |-> IF down THEN 0 ELSE @.elapsed,
                                     reading |-> r.ret = "Suspended"]]
    /\ res' = [res EXCEPT ![p] = Res(fn, r.ret, r.hdr, r.frame, r.n, <<>>,
                                     ws[p].close_state, NoArg)]
    /\ UNCHANGED beside_ws

\* reader.read_frame_header()
ReadFrameHeader(p) ==
    /\ p \in DOMAIN ws
    /\ task[p].closing # "reader"
    /\ ~task[p].reading
    /\ Returned(p, "read_frame_header",
                read_frame_header(ws[p], sock[p].rx, sock[p].rdhup), FALSE, FALSE)

Discarded(p, d) ==
    /\ d.st # "Pending"
    /\ sock' = SockAfter(p, d.n, <<>>, FALSE, FALSE)
    /\ res' = [res EXCEPT ![p] = Res("discard_frame_data",
                                     IF d.st = "Ok" THEN "Ok" ELSE "UnexpectedEof",
                                     NoHeader, NoFrame, d.n, <<>>, ws[p].close_state, NoArg)]
    /\ UNCHANGED <<ws, task>>
    /\ UNCHANGED beside_ws

\* reader.discard_frame_data(&mut header), for the header the last call returned
DiscardFrameData(p) ==
    /\ p \in DOMAIN ws
    /\ task[p].closing # "reader"
    /\ ~task[p].reading
    /\ res[p].call = "read_frame_header"
    /\ res[p].ret = "Ok"
    /\ Discarded(p, discard_frame_data(sock[p].rx, res[p].hdr.len, sock[p].rdhup))

\* close() inside next(): shutdown(Write) on the socket may fail
NextReturned(p, r, ios) ==
    \E io \in IF r.closing THEN ios \cap {"ok", "shutdown_err"} ELSE {"ok"} :
        Returned(p, "next", r, r.closing /\ io = "ok", r.closing /\ io # "ok")

\* where the payload of an incoming frame lands in memory matters to mask() only
Aligns(buf) == IF Len(buf) > 1 /\ buf[2] >= 128 THEN 0..3 ELSE {0}

\* frames.next(); on a Close that completes the handshake it runs close():
\* shutdown(Write) on the socket (which may fail), then the poll for RdHangUp
FramesNext(p, ios) ==
    /\ p \in DOMAIN ws
    /\ task[p].closing # "reader"
    /\ \E align \in Aligns(sock[p].rx) :
         \E r \in {next(ws[p], sock[p].rx, sock[p].rdhup, align)} : NextReturned(p, r, ios)

\* the connection failed the call if it got as far as the write
Failed(r, io) ==
    /\ r.hdr # NoHeader
    /\ io \in (IF r.closing THEN IoOutcomes ELSE {"write_err", "short"}) \ {"ok"}

SendReturned(p, frame, r, io) ==
    /\ Peer(p) \in DOMAIN sock => Len(sock[Peer(p)].rx) + Len(r.wrote) <= MaxRx
    /\ ws' = [ws EXCEPT ![p] = r.s]
    /\ sock' = SockAfter(p, 0, r.wrote, r.down, Failed(r, io))
    /\ task' = [task EXCEPT ![p] = IF r.poll THEN [@ EXCEPT !.closing = "writer", !.elapsed = 0]
                                     ELSE @]
    /\ res' = [res EXCEPT ![p] = Res("send_frame", r.ret, r.hdr, NoFrame, 0, r.wrote,
                                     ws[p].close_state, frame)]
    /\ UNCHANGED beside_ws

\* writer.send_frame(frame) with the connection behaving as `io`; towards the
\* peer of a pair the write blocks while MaxRx bytes are in flight
SendFrame(p, frame, io) ==
    /\ p \in DOMAIN ws
    /\ task[p].closing # "writer"
    /\ SendReturned(p, frame, send_frame(ws[p], frame, io), io)

\* ws.set_max_message_length(max): needs the whole socket, so no call is in flight
SetMaxMessageLength(p, max) ==
    /\ p \in DOMAIN ws
    /\ task[p].closing = "none"
    /\ ~task[p].reading
    /\ ws[p].max_message_length # max
    /\ ws' = [ws EXCEPT ![p] = set_max_message_length(@, max)]
    /\ res' = [res EXCEPT ![p] = Res("set_max_message_length", "Ok", NoHeader, NoFrame, 0,
                                     <<>>, ws[p].close_state, NoArg)]
    /\ UNCHANGED <<sock, task>>
    /\ UNCHANGED beside_ws

----------------------------------------------------------------------------
(* close() (stream.rs:154-184): the poll for RdHangUp under close_timeout *)

\* time passes while the poll waits
Tick(p) ==
    /\ p \in DOMAIN ws
    /\ task[p].closing # "none"
    /\ ~sock[p].rdhup
    /\ task[p].elapsed < ws[p].close_timeout
    /\ task' = [task EXCEPT ![p].elapsed = @ + 1]
    /\ UNCHANGED <<ws, sock, res>>
    /\ UNCHANGED beside_ws

\* the peer hung up: do_close returns Ok(()), the call returns
PollHangUp(p) ==
    /\ p \in DOMAIN ws
    /\ task[p].closing # "none"
    /\ sock[p].rdhup
    /\ task' = [task EXCEPT ![p].closing = "none", ![p].elapsed = 0]
    /\ UNCHANGED <<ws, sock, res>>
    /\ UNCHANGED beside_ws

\* the timeout fires: "Close timed out" is logged, the call returns Ok
CloseTimeout(p) ==
    /\ p \in DOMAIN ws
    /\ task[p].closing # "none"
    /\ ~sock[p].rdhup
    /\ task[p].elapsed = ws[p].close_timeout
    /\ task' = [task EXCEPT ![p].closing = "none", ![p].elapsed = 0]
    /\ UNCHANGED <<ws, sock, res>>
    /\ UNCHANGED beside_ws

----------------------------------------------------------------------------
(* An arbitrary peer: any header bits, any payload, EOF anywhere *)

KEY == <<17, 34, 51, 68>>

Pat(n) == [i \in 1..n |-> 97 + (i % 7)]

Fill(n) == [i \in 1..n |-> 255]

\* the payload as a conforming sender masks it: byte i with key byte i mod 4
Masked(data, key) ==
    IF key = NoMask THEN data
    ELSE [i \in 1..Len(data) |-> Xor8(data[i], key[((i - 1) % 4) + 1])]

\* a frame on the wire: header bits, the declared length, the payload bytes sent
Wire(fin, opcode, key, len, payload) ==
    LET e == encode_len(len)
    IN <<(IF fin THEN 128 ELSE 0) + opcode, (IF key # NoMask THEN 128 ELSE 0) + e.len7>>
       \o e.ext \o key \o Masked(payload, key)

WireOf(fin, op, key, payload) == Wire(fin, OpCode(op), key, Len(payload), payload)

PeerFrames ==
    \* data frames: fragments of two bytes, final frames of one; masked and not
    {WireOf(FALSE, op, NoMask, <<104, 105>>) : op \in {"Continuation", "Text", "Binary"}}
    \cup {WireOf(TRUE, op, NoMask, <<33>>) : op \in {"Continuation", "Text", "Binary"}}
    \cup {WireOf(FALSE, "Text", KEY, <<104, 105>>), WireOf(TRUE, "Continuation", KEY, <<33>>),
          WireOf(TRUE, "Binary", KEY, <<33>>)}
    \* control frames
    \cup {WireOf(TRUE, "Ping", NoMask, <<>>), WireOf(TRUE, "Ping", KEY, <<9>>),
          WireOf(TRUE, "Pong", NoMask, <<7>>),
          WireOf(TRUE, "Close", NoMask, <<>>), WireOf(TRUE, "Close", NoMask, <<3>>),
          WireOf(TRUE, "Close", NoMask, <<3, 232>>),
          WireOf(TRUE, "Close", KEY, <<3, 233, 120>>)}
    \* control frames at and past the length limit, and without fin
    \cup {WireOf(TRUE, "Ping", NoMask, Fill(MAX_LENGTH)),
          WireOf(TRUE, "Pong", NoMask, Fill(MAX_LENGTH + 1)),
          WireOf(FALSE, "Ping", NoMask, <<>>), WireOf(FALSE, "Close", NoMask, <<3, 232>>)}
    \* an unknown opcode, text that is not UTF-8, a non-minimal length encoding
    \cup {Wire(TRUE, 3, NoMask, 0, <<>>), WireOf(TRUE, "Text", NoMask, <<255>>),
          <<130, LEN16, 0, 1, 42>>}
    \* two frames in one arrival
    \cup {WireOf(TRUE, "Ping", NoMask, <<7>>) \o WireOf(TRUE, "Pong", NoMask, <<>>)}
    \* frames cut short: half a header, a header without its key, half a payload
    \cup {<<129>>, <<129, 130, 17>>, Wire(TRUE, 2, NoMask, 2, <<1>>)}

\* the peer's next bytes arrive; the connection hands them over once the
\* reader has used up what was there
Deliver(p, bytes) ==
    /\ p \in DOMAIN ws
    /\ ~sock[p].rdhup
    /\ sock[p].rx = <<>>
    /\ sock' = [sock EXCEPT ![p].rx = @ \o bytes]
    /\ UNCHANGED <<ws, task, res>>
    /\ UNCHANGED beside_ws

\* reader.discard_frame_data(&mut header) when the buffer holds the payload
\* and no more: the call waits in fill() and returns as the peer's next bytes
\* arrive
DiscardOnArrival(p, bytes) ==
    /\ p \in DOMAIN ws
    /\ task[p].closing # "reader"
    /\ ~task[p].reading
    /\ res[p].call = "read_frame_header"
    /\ res[p].ret = "Ok"
    /\ ~sock[p].rdhup
    /\ Len(sock[p].rx) = res[p].hdr.len
    /\ bytes # <<>>
    /\ \E d \in {discard_frame_data(sock[p].rx \o bytes, res[p].hdr.len, FALSE)} :
         /\ sock' = [sock EXCEPT ![p].rx = Drop(@ \o bytes, d.n)]
         /\ res' = [res EXCEPT ![p] = Res("discard_frame_data", d.st, NoHeader, NoFrame,
                                          d.n, <<>>, ws[p].close_state, NoArg)]
    /\ UNCHANGED <<ws, task>>
    /\ UNCHANGED beside_ws

\* the peer shuts its sending side down, or the connection drops
PeerHangUp(p) ==
    /\ p \in DOMAIN ws
    /\ ~sock[p].rdhup
    /\ sock' = [sock EXCEPT ![p].rdhup = TRUE]
    /\ UNCHANGED <<ws, task, res>>
    /\ UNCHANGED beside_ws

----------------------------------------------------------------------------
(* What the application sends *)

SendFrames ==
    {text(<<104, 105>>), text_partial(<<104>>), binary(<<1, 2>>), binary_partial(<<3>>),
     ping(<<>>), ping(Pat(MAX_LENGTH)), ping(Pat(MAX_LENGTH + 1)), pong(<<7>>),
     close_frame(1000, <<>>), close_frame(1001, <<120>>),
     close_frame(1000, Pat(MAX_LENGTH - 2)), close_frame(1000, Pat(MAX_LENGTH - 1))}

\* the frames of a session that mostly reads
FewFrames == {close_frame(1000, <<>>)}

----------------------------------------------------------------------------
(* Spec: one session under an arbitrary peer and an unreliable connection *)

Next ==
    \/ \E p \in Sessions : ReadFrameHeader(p)
    \/ \E p \in Sessions : DiscardFrameData(p)
    \/ \E p \in Sessions : FramesNext(p, IoOutcomes)
    \/ \E p \in Sessions, frame \in FewFrames, io \in IoOutcomes : SendFrame(p, frame, io)
    \/ \E p \in Sessions, max \in MessageCaps : SetMaxMessageLength(p, max)
    \/ \E p \in Sessions : Tick(p)
    \/ \E p \in Sessions : PollHangUp(p)
    \/ \E p \in Sessions : CloseTimeout(p)
    \/ \E p \in Sessions, bytes \in PeerFrames : Deliver(p, bytes)
    \/ \E p \in Sessions, bytes \in PeerFrames : DiscardOnArrival(p, bytes)
    \/ \E p \in Sessions : PeerHangUp(p)

Spec == Init /\ [][Next]_vars

----------------------------------------------------------------------------
(* SpecWriter: one session that sends every kind of frame over an unreliable
   connection, while its peer sends a Close or hangs up *)

PeerCloses == {WireOf(TRUE, "Close", NoMask, <<3, 232>>)}

NextWriter ==
    \/ \E p \in Sessions, frame \in SendFrames, io \in IoOutcomes : SendFrame(p, frame, io)
    \/ \E p \in Sessions : FramesNext(p, IoOutcomes)
    \/ \E p \in Sessions : Tick(p)
    \/ \E p \in Sessions : PollHangUp(p)
    \/ \E p \in Sessions : CloseTimeout(p)
    \/ \E p \in Sessions, bytes \in PeerCloses : Deliver(p, bytes)
    \/ \E p \in Sessions : PeerHangUp(p)

SpecWriter == Init /\ [][NextWriter]_vars

----------------------------------------------------------------------------
(* SpecPair: a client session and a server session on one reliable, in-order
   connection; both read through the frame iterator.  The runtime runs the
   tasks: a read that can return does, and the poll of a close() goes on until
   the peer hangs up or the timeout fires. *)

PairFrames == {close_frame(1000, <<>>), text(<<33>>)}

NextPair ==
    \/ \E p \in Sessions, frame \in PairFrames : SendFrame(p, frame, "ok")
    \/ \E p \in Sessions : FramesNext(p, {"ok"})
    \/ \E p \in Sessions : Tick(p)
    \/ \E p \in Sessions : PollHangUp(p)
    \/ \E p \in Sessions : CloseTimeout(p)

\* the poll of a close() goes on or ends
Polls(p) == Tick(p) \/ PollHangUp(p) \/ CloseTimeout(p)

SpecPair ==
    /\ InitPair
    /\ [][NextPair]_vars
    /\ \A p \in Sessions : WF_vars(FramesNext(p, {"ok"})) /\ WF_vars(Polls(p))

----------------------------------------------------------------------------
(* The close state (spec section 4.6, "Close handshake") *)

\* C1: across any sequence of session operations (header reads, EOF, Close
\* sends, on the whole socket or on its split halves) close_state only moves
\* upward in None < {Read, Write} < Both: it never returns to None, never
\* switches between Read and Write, and never leaves Both.
C1_CloseStateOnlyRises ==
    [][\A p \in DOMAIN ws :
          \/ ws'[p].close_state = ws[p].close_state
          \/ ws[p].close_state = "None"
          \/ ws'[p].close_state = "Both"]_vars

\* a reader call found the state at Write and promoted it
C1_Promoted ==
    \E p \in DOMAIN ws :
        /\ res[p].call = "next"
        /\ res[p].pre = "Write"
        /\ ws[p].close_state = "Both"

\* C2: in every reachable state with close_state = Both, can_read() and
\* can_write() are false; read_frame_header and send_frame fail with Shutdown
\* without consuming or writing a byte, and next() returns None.
C2_BothRefusesCalls ==
    \A p \in DOMAIN ws :
        ws[p].close_state = "Both" =>
            /\ ~can_read(ws[p])
            /\ ~can_write(ws[p])
            /\ read_frame_header(ws[p], sock[p].rx, sock[p].rdhup)
                 = Ret(ws[p], 0, "Shutdown", NoHeader, NoFrame, FALSE)
            /\ \A frame \in SendFrames, io \in IoOutcomes :
                 send_frame(ws[p], frame, io)
                   = Sent(ws[p], "Shutdown", NoHeader, <<>>, FALSE, FALSE, FALSE)
            /\ \A align \in 0..3 :
                 next(ws[p], sock[p].rx, sock[p].rdhup, align)
                   = Ret(ws[p], 0, "None", NoHeader, NoFrame, FALSE)

\* a header read was refused at Both with bytes waiting on the stream
C2_RefusedAtBoth ==
    \E p \in DOMAIN ws :
        /\ res[p].call = "read_frame_header"
        /\ res[p].pre = "Both"
        /\ res[p].ret = "Shutdown"
        /\ sock[p].rx # <<>>

\* C3: whenever close_state is promoted to Both, by the time the promoting
\* operation returns shutdown(Write) has been issued on the socket and
\* RdHangUp has been awaited for at most close_timeout; no path reaches Both
\* without shutdown(Write).  (A connection whose writes or shutdown failed is
\* left out.)
C3_BothShutsSocketDown ==
    \A p \in DOMAIN ws :
        /\ task[p].elapsed <= ws[p].close_timeout
        /\ (ws[p].close_state = "Both" /\ task[p].closing = "none" /\ ~sock[p].io_failed)
              => sock[p].wr_shutdown

\* the server, having received a Close through its iterator, replied
\* Close(1000, "") to the client that had sent Close(1000, "")
C4_Replied ==
    /\ res["server"].call = "send_frame"
    /\ res["server"].arg = close_frame(1000, <<>>)
    /\ res["server"].pre = "Read"
    /\ res["server"].ret = "Ok"
    /\ ws["client"].close_state \in {"Write", "Both"}

\* the handshake is over on both sides and the client's socket is shut down
C4_Closed ==
    /\ ws["client"].close_state = "Both"
    /\ ws["server"].close_state = "Both"
    /\ ~can_read(ws["client"])
    /\ ~can_write(ws["client"])
    /\ sock["client"].wr_shutdown
    /\ \A p \in Sessions : task[p].closing = "none"

\* C4: two-peer close handshake: when the client sends Close(1000, "") and
\* the server, after receiving it through its frame iterator, replies
\* Close(1000, ""), then over a reliable in-order connection both sessions
\* eventually reach close_state = Both, the client can neither read nor
\* write and has shut its socket down for writes; neither peer blocks in
\* close() for longer than its close_timeout.
C4_CloseHandshake ==
    /\ [](\A p \in Sessions : task[p].elapsed <= ws[p].close_timeout)
    /\ (C4_Replied ~> C4_Closed)

\* both sides are done and the server's reply is the last thing it did
C4_HandshakeDone == C4_Replied /\ C4_Closed

----------------------------------------------------------------------------
(* Receiving (spec section 4.6, "Frame format", "Fragmentation") *)

\* C7 for one header read r of session s, whose `open` tells whether the
\* most recently accepted data frame had fin = false
C7_Verdict(s, r) ==
    (r.hdr # NoHeader /\ r.hdr.op \in {"Continuation", "Text", "Binary"}
        /\ r.ret \in {"Ok", "ExpectedContinuation", "UnexpectedContinuation"})
    => r.ret = (CASE s.open /\ r.hdr.op # "Continuation" -> "ExpectedContinuation"
                  [] ~s.open /\ r.hdr.op = "Continuation" -> "UnexpectedContinuation"
                  [] OTHER -> "Ok")

\* C7: a Continuation data frame is accepted if and only if the most recently
\* accepted data frame had fin = false; Text/Binary while a message is open is
\* rejected with ExpectedContinuation, Continuation while none is open with
\* UnexpectedContinuation; for every sequence of incoming frames.
C7_ContinuationIffOpen ==
    \A p \in DOMAIN ws :
        C7_Verdict(ws[p], read_frame_header(ws[p], sock[p].rx, sock[p].rdhup))

\* C8: at every point during message assembly the in-progress message buffer
\* is no longer than max_message_length; a data frame that would take it past
\* max_message_length is rejected with MessageTooLong before any of its
\* payload is appended.
C8_BufferWithinMax ==
    \A p \in DOMAIN ws : Len(ws[p].current_message.buf) <= ws[p].max_message_length

\* C8 as amended: the buffer is within the max_message_length in force
\* whenever bytes are appended to it (set_max_message_length may lower the
\* limit under a buffer already assembled), and a call that ends in
\* MessageTooLong appended nothing.
C8_AppendsWithinMax ==
    [][\A p \in DOMAIN ws :
          /\ ws'[p].current_message.buf # ws[p].current_message.buf
               => Len(ws'[p].current_message.buf) <= ws'[p].max_message_length
          /\ (res'[p] # res[p] /\ res'[p].ret = "MessageTooLong")
               => ws'[p].current_message.buf = ws[p].current_message.buf]_vars

\* a fragment is in the buffer and the next one was rejected for its length
C8_RejectedOnTop ==
    \E p \in DOMAIN ws :
        /\ res[p].call = "next"
        /\ res[p].ret = "MessageTooLong"
        /\ Len(ws[p].current_message.buf) = 2
        /\ ws[p].max_message_length = 3

\* C9 for one header read r of session s
C9_Verdict(s, r) ==
    (r.hdr # NoHeader /\ is_control(r.hdr.op)) =>
        /\ r.ret = "Ok" => (r.hdr.fin /\ r.hdr.len <= 125)
        /\ (~r.hdr.fin \/ r.hdr.len >= 126) => r.ret = "InvalidControlFrame"
        /\ (r.hdr.fin /\ r.hdr.len <= 125 /\ ~(s.is_client /\ r.hdr.mask # NoMask))
              => r.ret = "Ok"

\* C9: read_frame_header returns a control-frame header only if fin is set
\* and the declared length is at most 125; fin = 0 or a length of 126 or more
\* is rejected with InvalidControlFrame; exactly 125 bytes is accepted.
C9_ControlHeaders ==
    \A p \in DOMAIN ws :
        C9_Verdict(ws[p], read_frame_header(ws[p], sock[p].rx, sock[p].rdhup))

\* a Ping of exactly 125 bytes was returned
C9_Accepted125 ==
    \E p \in DOMAIN ws :
        /\ res[p].call = "read_frame_header"
        /\ res[p].ret = "Ok"
        /\ res[p].hdr.op = "Ping"
        /\ res[p].hdr.len = 125

----------------------------------------------------------------------------
(* Sending (spec section 4.6, "Frame format", "Close handshake") *)

\* a fresh session of the other role, as the peer that decodes what s sends
Decoder(s) == WebSocket_from(MAX_LENGTH, s.close_timeout, ~s.is_client)

\* C5 for the frame `sent` by a call that returned r, as the peer decodes it
C5_Verdict(sent, r, d) ==
    (r.ret = "Ok" /\ sent.fin /\ r.hdr.op # "Continuation") =>
        /\ d.ret = "Frame"
        /\ d.frame.kind = sent.op
        /\ d.frame.code = sent.close_code
        /\ d.frame.payload = sent.payload
        /\ d.n = Len(r.wrote)

\* C5: frame round trip: for every well-formed frame handed to send_frame
\* (Text, Binary, Ping, Pong, Close with a code and payload), for both roles,
\* the peer's decoder yields a frame of the same kind, close code and payload
\* and consumes exactly the bytes that were written.
C5_RoundTrip ==
    \A p \in DOMAIN ws :
        res[p].call = "send_frame" =>
            \A align \in 0..3 :
                C5_Verdict(res[p].arg, res[p],
                           next(Decoder(ws[p]), res[p].wrote, FALSE, align))

\* C6: for every Close frame written by send_frame the length field of the
\* encoded header is the user payload length plus 2 (the close code is
\* counted), so the declared length is the number of bytes that follow the
\* header and the mask key.
C6_CloseLengthCountsCode ==
    \A p \in DOMAIN ws :
        (res[p].call = "send_frame" /\ res[p].arg.op = "Close" /\ res[p].ret = "Ok") =>
            /\ res[p].hdr.len = Len(res[p].arg.payload) + 2
            /\ FrameHeader_read(res[p].wrote, FALSE).hdr.len
                 = Len(res[p].wrote) - FrameHeader_read(res[p].wrote, FALSE).n

\* C10 for a control frame handed to a session s that can write, r returned
C10_Verdict(s, frame, io, r) ==
    (is_control(frame.op) /\ can_write(s)) =>
        /\ Len(frame.payload) + (IF frame.op = "Close" THEN 2 ELSE 0) > 125
             => r = Sent(s, "UserInvalidControlFrame", NoHeader, <<>>, FALSE, FALSE, FALSE)
        /\ (Len(frame.payload) + (IF frame.op = "Close" THEN 2 ELSE 0) <= 125 /\ io = "ok")
             => (r.ret = "Ok" /\ r.wrote # <<>>)
        /\ r.wrote # <<>> => r.wrote[1] >= 128

\* C10: send_frame of a control frame whose encoded payload length (user
\* payload, plus 2 for the close code of a Close) exceeds 125 fails with
\* UserInvalidControlFrame, writes no bytes and leaves close_state unchanged;
\* one of exactly 125 is written; every control frame written has fin = 1.
\* (On a session whose writing side is open: otherwise the call fails with
\* Shutdown, see C2.)
C10_UserControlFrames ==
    \A p \in DOMAIN ws : \A frame \in SendFrames, io \in IoOutcomes :
        C10_Verdict(ws[p], frame, io, send_frame(ws[p], frame, io))

\* a Close of 124 + 2 bytes was refused after the peer's Close had arrived
C10_Refused126 ==
    \E p \in DOMAIN ws :
        /\ res[p].call = "send_frame"
        /\ res[p].arg = close_frame(1000, Pat(124))
        /\ res[p].ret = "UserInvalidControlFrame"
        /\ ws[p].close_state = "Read"

----------------------------------------------------------------------------
(* Fragmented sends and masking (spec section 4.6, "Fragmentation", "Masking") *)

\* C11 for a data frame handed to a session s that can write, r returned
C11_Data(s, frame, r) ==
    LET open == s.last_sent_message_op
    IN IF open \notin {"None", frame.op}
       THEN r = Sent(s, "DataTypeMismatch", NoHeader, <<>>, FALSE, FALSE, FALSE)
       ELSE /\ r.ret \in {"Ok", "IoError", "UnexpectedEof"}
            /\ r.wrote # <<>> =>
                 r.wrote[1] % 16 = OpCode(IF open = "None" THEN frame.op ELSE "Continuation")
            /\ r.s.last_sent_message_op = (IF frame.fin THEN "None" ELSE frame.op)
            /\ (r.s.last_sent_message_op = "None") = frame.fin

C11_Verdict(s, frame, io, r) ==
    can_write(s) =>
        /\ ~is_control(frame.op) => C11_Data(s, frame, r)
        /\ is_control(frame.op) => r.s.last_sent_message_op = s.last_sent_message_op
        /\ (io = "ok" /\ r.ret # "Ok") => r.wrote = <<>>

\* C11: for any sequence of send_frame calls with data frames, the first
\* fragment of a message is written with its real opcode, every following
\* fragment of the message with Continuation; a fragment of the other type is
\* rejected with DataTypeMismatch and leaves the in-progress send op as it
\* was; the in-progress send op is cleared exactly by a fin fragment; control
\* frames sent in between do not change it.
C11_SendFragments ==
    \A p \in DOMAIN ws : \A frame \in SendFrames, io \in IoOutcomes :
        C11_Verdict(ws[p], frame, io, send_frame(ws[p], frame, io))

\* a fin Text frame closed a message that a partial Text frame had opened,
\* with a control frame sent in between
C11_ClosedByContinuation ==
    \E p \in DOMAIN ws :
        /\ res[p].call = "send_frame"
        /\ res[p].arg = text(<<104, 105>>)
        /\ res[p].ret = "Ok"
        /\ res[p].hdr.op = "Continuation"
        /\ ws[p].last_sent_message_op = "None"

\* the frame written by a call that returned r: the mask bit and the key
C12_Write(s, io, r) ==
    /\ Len(r.wrote) >= 2 => (r.wrote[2] >= 128) = s.is_client
    /\ (io = "ok" /\ r.wrote # <<>>) =>
         LET h == FrameHeader_read(r.wrote, TRUE)
         IN /\ h.st = "Some"
            /\ Len(h.hdr.mask) = (IF s.is_client THEN 4 ELSE 0)
            /\ h.n = 2 + ExtLen(r.wrote[2] % 128) + (IF s.is_client THEN 4 ELSE 0)

\* a header with the masked bit set that a client's read_frame_header parsed
C12_MaskedIn(s, r) == s.is_client /\ r.hdr # NoHeader /\ r.hdr.mask # NoMask

\* the checks that come before the one on the mask (stream.rs:220-245)
C12_RejectedBefore(s, r) ==
    r.ret \in {"InvalidOpcode", "InvalidControlFrame",
               "ExpectedContinuation", "UnexpectedContinuation"}

\* C12: a session in the client role never returns a frame header that
\* carries a mask: every incoming frame with the masked bit set is rejected
\* with ServerMasked.  Every frame written by a server-role session has
\* masked = 0 and no mask key, every frame written by a client-role session
\* has masked = 1 followed by a 4-byte key.
C12_MaskedIsServerMasked ==
    \A p \in DOMAIN ws :
        /\ LET r == read_frame_header(ws[p], sock[p].rx, sock[p].rdhup)
           IN C12_MaskedIn(ws[p], r) => r.ret = "ServerMasked"
        /\ \A frame \in SendFrames, io \in IoOutcomes :
             C12_Write(ws[p], io, send_frame(ws[p], frame, io))

\* C12 as amended: a client never returns a header that carries a mask; an
\* incoming frame with the masked bit set is rejected, with ServerMasked
\* unless one of the earlier checks of read_frame_header (opcode, control
\* frame, continuation) rejects it first.  The frames written are as above.
C12_MaskedIsRejected ==
    \A p \in DOMAIN ws :
        /\ LET r == read_frame_header(ws[p], sock[p].rx, sock[p].rdhup)
           IN /\ (ws[p].is_client /\ r.ret = "Ok") => r.hdr.mask = NoMask
              /\ C12_MaskedIn(ws[p], r) =>
                   (r.ret = "ServerMasked" \/ C12_RejectedBefore(ws[p], r))
              /\ (C12_MaskedIn(ws[p], r) /\ r.hdr.op # "Invalid"
                    /\ (is_control(r.hdr.op) => r.hdr.fin /\ r.hdr.len <= MAX_LENGTH)
                    /\ (~is_control(r.hdr.op) =>
                          ws[p].expect_continuation = (r.hdr.op = "Continuation")))
                   => r.ret = "ServerMasked"
        /\ \A frame \in SendFrames, io \in IoOutcomes :
             C12_Write(ws[p], io, send_frame(ws[p], frame, io))

\* a client refused a masked Ping with ServerMasked
C12_RefusedMaskedPing ==
    \E p \in DOMAIN ws :
        /\ ws[p].is_client
        /\ res[p].call = "read_frame_header"
        /\ res[p].ret = "ServerMasked"
        /\ res[p].hdr.op = "Ping"
        /\ res[p].hdr.mask = KEY

----------------------------------------------------------------------------
(* SpecMask: mask() on its own (mod.rs:222-241), over payloads, keys and the
   places in memory where the buffer may start; then mask() again on the
   result, in a buffer that may start elsewhere *)

MaxMask == 10           \* payload bytes

MaskKeys == {<<17, 34, 51, 68>>, <<0, 0, 0, 0>>, <<255, 1, 128, 7>>}

MaskPayloads ==
    {Pat(n) : n \in 0..MaxMask} \cup {Fill(n) : n \in 0..MaxMask}
    \cup {[i \in 1..n |-> (37 * i) % 256] : n \in 0..MaxMask}

InitMask ==
    /\ NoWs
    /\ NoHttp
    /\ call \in {[fn |-> "mask", data |-> d, key |-> k, align |-> a, out |-> <<>>,
                   at |-> <<>>] : d \in MaskPayloads, k \in MaskKeys, a \in 0..3}

\* mask(data, key) where the buffer starts `align` bytes before a 4-byte boundary
MaskCall(align) ==
    /\ call.fn = "mask"
    /\ Len(call.at) < 2
    /\ call' = [call EXCEPT !.out = mask(IF call.at = <<>> THEN call.data ELSE call.out,
                                         call.key, align),
                            !.at = Append(@, align)]
    /\ UNCHANGED <<ws, sock, task, res, body, conn, rd>>

NextMask ==
    \/ call.at = <<>> /\ MaskCall(call.align)
    \/ \E align \in 0..3 : call.at # <<>> /\ MaskCall(align)

SpecMask == InitMask /\ [][NextMask]_vars

\* C13: mask(data, k) XORs byte i of data with byte (i mod 4) of the
\* big-endian key k for every i, however the buffer splits into an unaligned
\* prefix (0..3 bytes), a 4-byte-aligned middle and a suffix, for any length;
\* hence mask(mask(p, k), k) = p.
C13_MaskCyclesKey ==
    call.fn = "mask" =>
        /\ Len(call.at) = 1 =>
             /\ Len(call.out) = Len(call.data)
             /\ \A i \in 1..Len(call.data) :
                  call.out[i] = Xor8(call.data[i], call.key[((i - 1) % 4) + 1])
        /\ Len(call.at) = 2 => call.out = call.data

\* ten bytes were masked in a buffer with a prefix of 3, a middle of 4 and a
\* suffix of 3, and unmasked in a buffer that is aligned
C13_MaskedAcrossSplit ==
    /\ call.fn = "mask"
    /\ call.at = <<3, 0>>
    /\ Len(call.data) = 10
    /\ call.key = <<17, 34, 51, 68>>
    /\ call.data = Pat(10)
    /\ call.out = Pat(10)

----------------------------------------------------------------------------
(* After an error (spec section 7, "Protocol violations") *)

\* C14: after the reader reported a protocol violation (InvalidOpcode,
\* InvalidControlFrame, ExpectedContinuation, UnexpectedContinuation,
\* ServerMasked or MessageTooLong) the session is terminal for reading: no
\* later call on it yields a frame parsed from the bytes that follow the
\* offending header.  Stated for the reader call that comes next, whenever
\* it comes and whatever has arrived by then.
C14_TerminalAfterViolation ==
    \A p \in DOMAIN ws :
        (res[p].call \in {"next", "read_frame_header"} /\ res[p].ret \in Violations) =>
            /\ read_frame_header(ws[p], sock[p].rx, sock[p].rdhup).ret # "Ok"
            /\ \A align \in Aligns(sock[p].rx) :
                 LET r == next(ws[p], sock[p].rx, sock[p].rdhup, align)
                 IN ~(r.ret = "Frame" /\ r.n > 0)

----------------------------------------------------------------------------
(* Close frames as the iterator yields them (spec section 4.6) *)

\* the Close frame that heads the bytes buf, if the reader takes it: fin, at
\* most 125 bytes and within max_message_length, not masked towards a client,
\* and all there
C15_CloseAhead(s, buf, h) ==
    /\ h.st = "Some"
    /\ h.hdr.op = "Close"
    /\ h.hdr.fin
    /\ h.hdr.len <= MAX_LENGTH
    /\ h.hdr.len <= s.max_message_length
    /\ ~(s.is_client /\ h.hdr.mask # NoMask)
    /\ Len(buf) >= h.n + h.hdr.len

\* the Close the payload `raw` stands for
C15_Expected(raw) ==
    IF Len(raw) >= 2
    THEN [kind |-> "Close", code |-> 256 * raw[1] + raw[2], payload |-> Drop(raw, 2)]
    ELSE [kind |-> "Close", code |-> 1005, payload |-> raw]

\* C15 for one call r of next() on session s with the stream holding buf
C15_Verdict(s, buf, eof, h, r) ==
    can_read(s) =>
        /\ C15_CloseAhead(s, buf, h) =>
             /\ r.ret = "Frame"
             /\ r.frame = C15_Expected(Masked(SubSeq(buf, h.n + 1, h.n + h.hdr.len),
                                              h.hdr.mask))
             /\ r.n = h.n + h.hdr.len
        /\ h.st = "None" =>
             /\ r.ret = "Frame"
             /\ r.frame = [kind |-> "Close", code |-> 1006, payload |-> <<>>]
        /\ (r.ret = "Frame" /\ r.frame.kind = "Close" /\ h.st = "Some" /\ h.hdr.op = "Close")
             => C15_CloseAhead(s, buf, h)
        /\ (r.ret = "Frame" /\ r.frame.kind = "Close") => ~can_read(r.s)

\* on a session that cannot read, next() returns None
C15_NothingMore(s, r) == ~can_read(s) => r = Ret(s, 0, "None", NoHeader, NoFrame, FALSE)

----------------------------------------------------------------------------
(* http/body.rs: the decoder of a response body.  The Body reads through a
   buffered reader: `buffer` is what the reader holds, `avail` what has
   arrived on the connection and was not read yet.  A read of the connection
   takes what has arrived, up to the room it is given; it returns 0 at EOF
   and waits while nothing has arrived. *)

LF == 10                \* b'\n'

CRLF == <<13, 10>>

CHUNK_SIZE_AMOUNT == 32 \* size_of::<u64>() * 2 * 2
U64_HEX_DIGITS == 16    \* the hex digits of u64::MAX

\* Transfer (body.rs:21-35); n is the count of Length, Extension and Data
Transfer(t, st, n) == [t |-> t, st |-> st, n |-> n]

Empty == Transfer("Empty", "", 0)
Connection == Transfer("Connection", "", 0)
Length(n) == Transfer("Length", "", n)
Chunks(st, n) == Transfer("Chunks", st, n)
Trailers == Transfer("Trailers", "", 0)

is_ascii_hexdigit(c) == c \in (48..57) \cup (65..70) \cup (97..102)

HexDigit(c) == IF c <= 57 THEN c - 48 ELSE IF c <= 70 THEN c - 55 ELSE c - 87

\* the digits without the leading zeros
RECURSIVE Significant(_)
Significant(str) ==
    IF str # <<>> /\ Head(str) = 48 THEN Significant(Tail(str)) ELSE str

RECURSIVE HexAcc(_, _)
HexAcc(acc, str) ==
    IF str = <<>> THEN acc
    ELSE IF acc >= HUGE \div 16 THEN HUGE
    ELSE HexAcc(acc * 16 + HexDigit(Head(str)), Tail(str))

\* a variant that takes the number of digits for the number of significant ones
from_str_radix16_no_zeros(str) ==
    [ok |-> str # <<>> /\ Len(str) < U64_HEX_DIGITS, value |-> HexAcc(0, Significant(str))]

\* u64::from_str_radix(str, 16).ok() on hex digits: an error on the empty
\* string and on a value past u64::MAX
from_str_radix16(str) ==
    [ok |-> str # <<>> /\ Len(Significant(str)) <= U64_HEX_DIGITS,
     value |-> HexAcc(0, Significant(str))]

\* the index (from 0) of the first byte that is no hex digit, or -1
FirstNonHex(buf) ==
    IF \A i \in 1..Len(buf) : is_ascii_hexdigit(buf[i]) THEN -1
    ELSE (CHOOSE i \in 1..Len(buf) :
             /\ ~is_ascii_hexdigit(buf[i])
             /\ \A j \in 1..(i - 1) : is_ascii_hexdigit(buf[j])) - 1

\* memchr: the index (from 0) of the first byte c, or -1
memchr(c, buf) ==
    IF \A i \in 1..Len(buf) : buf[i] # c THEN -1
    ELSE (CHOOSE i \in 1..Len(buf) : buf[i] = c /\ \A j \in 1..(i - 1) : buf[j] # c) - 1

\* a count that is held as HUGE stays so
Minus(n, k) == IF n >= HUGE THEN HUGE ELSE n - k

\* What a step of the Body returns: the Body afterwards, what is left of the
\* arrived bytes, the outcome ("Ok" | "PartialFile" | "ChunkTooLarge" |
\* "Suspended": it waits for the connection), and the bytes handed back.
Out(b, avail, ret, data) == [b |-> b, avail |-> avail, ret |-> ret, data |-> data]

\* a variant that consumes the two bytes after the digits with them
chunk_size_and_line_end(b, avail, index) ==
    LET size == from_str_radix16(SubSeq(b.buffer, 1, index))
    IN IF ~size.ok THEN Out(b, avail, "ChunkTooLarge", <<>>)
       ELSE Out([transfer |-> Chunks("Extension", size.value),
                 buffer |-> Drop(b.buffer, index + 2)], avail, "Ok", <<>>)

\* body.rs:127-139: the size is parsed, the digits are consumed
chunk_size(b, avail, index) ==
    LET size == from_str_radix16(SubSeq(b.buffer, 1, index))
    IN IF ~size.ok THEN Out(b, avail, "ChunkTooLarge", <<>>)
       ELSE Out([transfer |-> Chunks("Extension", size.value),
                 buffer |-> Drop(b.buffer, index)], avail, "Ok", <<>>)

\* Body::read_chunk_size
RECURSIVE read_chunk_size(_, _, _)
read_chunk_size(b, avail, eof) ==
    LET index == FirstNonHex(b.buffer)
    IN IF index # -1 THEN chunk_size(b, avail, index)
       ELSE IF Len(b.buffer) >= CHUNK_SIZE_AMOUNT THEN Out(b, avail, "ChunkTooLarge", <<>>)
       ELSE IF avail # <<>>
       THEN read_chunk_size([b EXCEPT !.buffer = @ \o avail], <<>>, eof)
       ELSE Out(b, avail, IF eof THEN "PartialFile" ELSE "Suspended", <<>>)

\* a variant that takes the chunk of size zero for a chunk like the others
AfterNewline_no_last(transfer) ==
    IF transfer.st = "Extension" THEN Chunks("Data", transfer.n) ELSE Chunks("Size", 0)

\* body.rs:162-170: where the decoder goes after the newline
AfterNewline(transfer) ==
    IF transfer.st = "Extension"
    THEN IF transfer.n = 0 THEN Trailers ELSE Chunks("Data", transfer.n)
    ELSE Chunks("Size", 0)

\* Body::read_until_newline: without a newline the buffer is discarded and filled
RECURSIVE read_until_newline(_, _, _)
read_until_newline(b, avail, eof) ==
    LET index == memchr(LF, b.buffer)
    IN IF index # -1
       THEN Out([transfer |-> AfterNewline(b.transfer), buffer |-> Drop(b.buffer, index + 1)],
                avail, "Ok", <<>>)
       ELSE IF avail # <<>> THEN read_until_newline([b EXCEPT !.buffer = avail], <<>>, eof)
       ELSE Out([b EXCEPT !.buffer = <<>>], avail,
                IF eof THEN "PartialFile" ELSE "Suspended", <<>>)

\* Body::read_bytes into a buffer of m > 0 bytes: from the reader's buffer if
\* it holds anything, else straight from the connection
read_bytes(b, m, avail, eof) ==
    IF b.buffer # <<>>
    THEN [st |-> "Ok", data |-> SubSeq(b.buffer, 1, Min(m, Len(b.buffer))),
          buffer |-> Drop(b.buffer, Min(m, Len(b.buffer))), avail |-> avail]
    ELSE IF avail # <<>>
    THEN [st |-> "Ok", data |-> SubSeq(avail, 1, Min(m, Len(avail))),
          buffer |-> <<>>, avail |-> Drop(avail, Min(m, Len(avail)))]
    ELSE [st |-> IF eof THEN "Ok" ELSE "Pending", data |-> <<>>, buffer |-> <<>>,
          avail |-> avail]

\* a variant that reads into the whole buffer of the caller
Room_of_caller(n, left) == n

\* read_into!(buf, remaining as usize): the room of a read of counted bytes
Room(n, left) == Min(n, left)

\* body.rs:190-208 and 299-318: a read of counted bytes; `last` and `more`
\* are the states to go to when the count is used up and when it is not
read_counted(b, left, n, avail, eof, last, more(_)) ==
    IF Room(n, left) = 0 THEN Out(b, avail, "Ok", <<>>)
    ELSE LET r == read_bytes(b, Room(n, left), avail, eof)
         IN CASE r.st = "Pending" -> Out(b, avail, "Suspended", <<>>)
              [] r.st = "Ok" /\ r.data = <<>> -> Out(b, avail, "PartialFile", <<>>)
              [] OTHER ->
                   Out([transfer |-> IF Minus(left, Len(r.data)) = 0 THEN last
                                     ELSE more(Minus(left, Len(r.data))),
                        buffer |-> r.buffer], r.avail, "Ok", r.data)

\* Body::read_chunks
RECURSIVE read_chunks(_, _, _, _)
chunks_loop(r, n, eof) ==
    IF r.ret # "Ok" THEN r
    ELSE IF r.b.transfer.t = "Chunks" THEN read_chunks(r.b, n, r.avail, eof)
    ELSE Out(r.b, r.avail, "Ok", <<>>)

read_chunks(b, n, avail, eof) ==
    CASE b.transfer.st = "Size" ->
           Let(read_chunk_size(b, avail, eof), LAMBDA r : chunks_loop(r, n, eof))
      [] b.transfer.st = "Data" ->
           read_counted(b, b.transfer.n, n, avail, eof, Chunks("Trailer", 0),
                        LAMBDA k : Chunks("Data", k))
      [] OTHER ->
           Let(read_until_newline(b, avail, eof), LAMBDA r : chunks_loop(r, n, eof))

\* body.rs:287-297: until the connection ends
read_connection(b, n, avail, eof) ==
    IF n = 0 THEN Out(b, avail, "Ok", <<>>)
    ELSE LET r == read_bytes(b, n, avail, eof)
         IN IF r.st = "Pending" THEN Out(b, avail, "Suspended", <<>>)
            ELSE Out([transfer |-> IF r.data = <<>> THEN Empty ELSE b.transfer,
                      buffer |-> r.buffer], r.avail, "Ok", r.data)

\* <Body as Read>::async_read into a buffer of n bytes
async_read(b, n, avail, eof) ==
    CASE b.transfer.t \in {"Empty", "Trailers"} -> Out(b, avail, "Ok", <<>>)
      [] b.transfer.t = "Chunks" -> read_chunks(b, n, avail, eof)
      [] b.transfer.t = "Connection" -> read_connection(b, n, avail, eof)
      [] OTHER ->
           read_counted(b, b.transfer.n, n, avail, eof, Empty, LAMBDA k : Length(k))

----------------------------------------------------------------------------
(* SpecBody: one response body, read through buffers of several sizes while
   the connection delivers it in pieces of any size *)

MaxArrive == 40         \* the bytes that arrive at once

BufSizes == {0, 1, 3, 64}

HexChar(d) == IF d < 10 THEN 48 + d ELSE 87 + d

Digits(n, d) == [i \in 1..n |-> HexChar(d)]

\* a chunk as a server writes it: the size line, the payload, CRLF
Chunk(size, ext, data) == size \o ext \o CRLF \o data \o CRLF

LastChunk == <<48>> \o CRLF \o CRLF

\* A response body on the wire.  mode: how Body::new reads the headers;
\* line: the digits of its first size line; payload: the bytes it carries;
\* sizes: the chunk sizes it announces; whole: it is well-formed and complete
Stream(mode, transfer, bytes, line, payload, sizes, whole, closes) ==
    [mode |-> mode, transfer |-> transfer, bytes |-> bytes, line |-> line,
     payload |-> payload, sizes |-> sizes, whole |-> whole, closes |-> closes]

Chunked(bytes, line, payload, sizes, whole, closes) ==
    Stream("chunked", Chunks("Size", 0), bytes, line, payload, sizes, whole, closes)

Counted(n, bytes, closes) ==
    Stream("length", Length(n), bytes, <<>>, SubSeq(bytes, 1, Min(n, Len(bytes))), <<n>>,
           Len(bytes) >= n, closes)

ChunkedStreams ==
    \* "2\r\nhi\r\n3\r\nabc\r\n0\r\n\r\n", the connection kept open or closed
    {Chunked(Chunk(<<50>>, <<>>, <<104, 105>>) \o Chunk(<<51>>, <<>>, <<97, 98, 99>>)
             \o LastChunk,
             <<50>>, <<104, 105, 97, 98, 99>>, <<2, 3, 0>>, TRUE, c) : c \in BOOLEAN}
    \* a size in upper case with a leading zero, an extension, a trailer field
    \cup {Chunked(Chunk(<<48, 65>>, <<59, 120>>, Pat(10))
                  \o <<48>> \o CRLF \o <<84, 58, 118>> \o CRLF \o CRLF,
                  <<48, 65>>, Pat(10), <<10, 0>>, TRUE, FALSE)}
    \* a payload of newline, "0", carriage return
    \cup {Chunked(Chunk(<<51>>, <<>>, <<10, 48, 13>>) \o LastChunk,
                  <<51>>, <<10, 48, 13>>, <<3, 0>>, TRUE, FALSE)}
    \* the connection ends inside a chunk
    \cup {Chunked(<<51>> \o CRLF \o <<97>>, <<51>>, <<97>>, <<3>>, FALSE, TRUE)}

SizeLines ==
    {Digits(U64_HEX_DIGITS, 15),                            \* u64::MAX
     <<49>> \o Digits(U64_HEX_DIGITS, 0),                   \* u64::MAX + 1
     Digits(U64_HEX_DIGITS + 1, 15),
     Digits(CHUNK_SIZE_AMOUNT - 2, 0) \o <<50>>,            \* 2, in 31 digits
     Digits(CHUNK_SIZE_AMOUNT - 1, 0) \o <<50>>,            \* 2, in 32 digits
     <<>>}                                                  \* no digit at all

SizeLineStreams ==
    {Chunked(line \o CRLF \o <<104, 105>> \o CRLF \o LastChunk, line, <<104, 105>>,
             <<HexAcc(0, Significant(line))>>, FALSE, TRUE) : line \in SizeLines}

CountedStreams ==
    {Counted(3, <<97, 98, 99>>, c) : c \in BOOLEAN}
    \cup {Counted(3, <<97, 98, 99, 72, 84>>, FALSE),        \* the next response follows
          Counted(3, <<97, 98>>, TRUE),                     \* closed before byte 3
          Counted(0, <<>>, FALSE), Counted(0, <<72>>, FALSE),
          Counted(40, Pat(40), TRUE)}

ConnectionStreams ==
    {Stream("connection", Connection, <<97, 98, 99>>, <<>>, <<97, 98, 99>>, <<>>, TRUE, TRUE)}

BodyStreams == ChunkedStreams \cup SizeLineStreams \cup CountedStreams \cup ConnectionStreams

\* what the reader already holds of the body when the headers were parsed
Buffered(s) == {0, 1, 4, Len(s.bytes)} \cap (0..Len(s.bytes))

InitBody ==
    /\ NoWs
    /\ call = NoCall
    /\ \E s \in BodyStreams : \E j \in Buffered(s) :
         /\ body = [transfer |-> s.transfer, buffer |-> SubSeq(s.bytes, 1, j)]
         /\ conn = [avail |-> <<>>, later |-> Drop(s.bytes, j), sent |-> s]
    /\ rd = [ret |-> "Ok", data |-> <<>>, total |-> <<>>, n |-> 0, busy |-> FALSE,
             calls |-> 0]

\* the connection has ended: read() returns 0 once what arrived is read
Eof == conn.sent.closes /\ conn.later = <<>>

BodyReturned(n, r) ==
    /\ body' = r.b
    /\ conn' = [conn EXCEPT !.avail = r.avail]
    /\ rd' = [ret |-> r.ret, data |-> r.data, total |-> rd.total \o r.data, n |-> n,
              busy |-> r.ret = "Suspended", calls |-> Min(rd.calls + 1, 2)]
    /\ UNCHANGED beside_http

\* body.read(buf) with a buffer of n bytes; a call that waits for the
\* connection is taken up again when more has arrived
BodyRead(n) ==
    /\ conn # <<>>
    /\ rd.busy => n = rd.n
    /\ call.fn = "read_trailer" => call.ret # "Suspended"    \* &mut self is lent
    /\ \E r \in {async_read(body, n, conn.avail, Eof)} : BodyReturned(n, r)

\* the next k bytes arrive
Arrive(k) ==
    /\ conn # <<>>
    /\ conn.avail = <<>>
    /\ k <= Len(conn.later)
    /\ conn' = [conn EXCEPT !.avail = SubSeq(conn.later, 1, k), !.later = Drop(@, k)]
    /\ UNCHANGED <<body, rd>>
    /\ UNCHANGED beside_http

----------------------------------------------------------------------------
(* The body decoder (spec section 4.5) *)

RECURSIVE Sum(_)
Sum(seq) == IF seq = <<>> THEN 0 ELSE Head(seq) + Sum(Tail(seq))

IsPrefix(a, b) == Len(a) <= Len(b) /\ a = SubSeq(b, 1, Len(a))

\* C16: for a chunked response body, over any chunk sizes and any way the
\* connection delivers the bytes (short reads, caller buffers of any size),
\* the bytes the Body reads return are the chunk payloads in order: their
\* count is the sum of the announced chunk sizes, and after the zero-size
\* chunk line every read returns 0.
C16_ChunkedInOrder ==
    (conn.sent.mode = "chunked" /\ conn.sent.whole) =>
        /\ rd.ret \in {"Ok", "Suspended"}
        /\ IsPrefix(rd.total, conn.sent.payload)
        /\ (rd.calls > 0 /\ rd.ret = "Ok" /\ rd.data = <<>> /\ rd.n > 0)
             => body.transfer \in {Trailers, Empty}
        /\ body.transfer \in {Trailers, Empty} =>
             /\ rd.total = conn.sent.payload
             /\ Len(rd.total) = Sum(conn.sent.sizes)
             /\ \A n \in BufSizes :
                  async_read(body, n, conn.avail, Eof) = Out(body, conn.avail, "Ok", <<>>)

\* "hi" and "abc" were read byte by byte, and the read after them returned 0
C16_ReadToTheEnd ==
    /\ conn.sent.mode = "chunked"
    /\ conn.sent.sizes = <<2, 3, 0>>
    /\ body.transfer = Trailers
    /\ rd.total = <<104, 105, 97, 98, 99>>
    /\ rd.n = 1
    /\ rd.ret = "Ok"
    /\ rd.data = <<>>

\* the digits of the size line the decoder is at
C17_Line ==
    LET ahead == body.buffer \o conn.avail \o conn.later
    IN IF FirstNonHex(ahead) = -1 THEN ahead ELSE SubSeq(ahead, 1, FirstNonHex(ahead))

\* the value of the digits is within u64: at most 16 of them are significant
C17_InU64(line) == Len(Significant(line)) <= 16

\* C17 for the size line `line`, r returned by read_chunk_size; `long` tells
\* which lines may be refused for their number of digits
C17_Verdict(line, r, long) ==
    /\ r.ret = "ChunkTooLarge" => (~C17_InU64(line) \/ long)
    /\ r.ret = "Ok" =>
         /\ C17_InU64(line)
         /\ r.b.transfer = Chunks("Extension", HexAcc(0, Significant(line)))
    /\ (~C17_InU64(line) /\ r.ret \notin {"Suspended", "PartialFile"})
         => r.ret = "ChunkTooLarge"

C18_Verdict(n, at_end) ==
    /\ Len(rd.total) <= n
    /\ IsPrefix(rd.total, conn.sent.payload)
    /\ rd.ret \in {"Ok", "Suspended", "PartialFile"}
    /\ body.transfer = (IF at_end THEN Empty ELSE Length(n - Len(rd.total)))
    /\ \A m \in BufSizes :
         LET r == async_read(body, m, conn.avail, Eof)
         IN /\ Len(r.data) <= n - Len(rd.total)
            /\ Len(rd.total) = n => r = Out(body, conn.avail, "Ok", <<>>)
            /\ r.ret = "PartialFile" => (r.b = body /\ Len(rd.total) < n /\ Eof)
            /\ (Eof /\ body.buffer \o conn.avail = <<>> /\ Len(rd.total) < n /\ m > 0)
                 => r.ret = "PartialFile"

\* C18: for a Content-Length body of n bytes the reads return at most the
\* remaining count per call, n bytes in total and then 0; the transfer state
\* becomes Empty exactly when n bytes have been delivered; when the
\* connection ends before that the read fails with the partial-file error
\* (UnexpectedEof) and the remaining count is unchanged.
C18_LengthBody ==
    conn.sent.mode = "length" =>
        C18_Verdict(conn.sent.sizes[1], Len(rd.total) = conn.sent.sizes[1])

\* C18 as amended: the transfer state becomes Empty exactly when the last of
\* n >= 1 bytes is delivered; a body of Content-Length 0 stays Length(0),
\* and its reads return 0.  The rest as stated.
C18_LengthBodyNotEmpty ==
    conn.sent.mode = "length" =>
        C18_Verdict(conn.sent.sizes[1],
                    Len(rd.total) = conn.sent.sizes[1] /\ conn.sent.sizes[1] > 0)

\* "abc" was read with more of the connection's bytes buffered behind it, and
\* the read after it returned 0
C18_ReadAllThenZero ==
    /\ conn.sent.mode = "length"
    /\ rd.total = <<97, 98, 99>>
    /\ body.transfer = Empty
    /\ body.buffer \o conn.avail # <<>>
    /\ rd.ret = "Ok"
    /\ rd.data = <<>>
    /\ rd.n > 0

----------------------------------------------------------------------------
(* transfer.rs:214-391: the response head *)

HTTP_PREFIX == <<72, 84, 84, 80, 47>>         \* b"HTTP/"

ReaderCapacity == 16    \* reader.capacity()

\* what the frame of parse_response beside the reader starts from
Frame(reader, request) ==
    [fn |-> "parse_response", pc |-> "prefix", reader |-> reader, request |-> request,
     offset |-> 0, at_fill |-> FALSE, total_size |-> 0, size_limit |-> 0,
     ret |-> "Pending", version |-> 0, status |-> 0, headers |-> 0,
     head |-> 0, used |-> 0]

\* BufReader::fill: what has arrived is appended to the buffer as far as it
\* has room; 0 when it has none and at EOF; `wait` when nothing has arrived
fill(buffer, avail, eof) ==
    LET k == Min(ReaderCapacity - Len(buffer), Len(avail))
    IN IF Len(buffer) >= ReaderCapacity
       THEN [n |-> 0, buffer |-> buffer, avail |-> avail, wait |-> FALSE]
       ELSE IF avail = <<>>
       THEN [n |-> 0, buffer |-> buffer, avail |-> avail, wait |-> ~eof]
       ELSE [n |-> k, buffer |-> buffer \o SubSeq(avail, 1, k), avail |-> Drop(avail, k),
             wait |-> FALSE]

Line(f, avail, ret) == [f |-> f, avail |-> avail, ret |-> ret]

\* transfer.rs:216-244: the loop of read_line_in_place, entered at the scan
\* or, when it was left waiting for bytes, at the fill
RECURSIVE read_line_in_place(_, _, _)
read_line_in_place(f, avail, eof) ==
    IF f.at_fill
    THEN LET r == fill(f.reader, avail, eof)
         IN IF r.wait THEN Line(f, avail, "Suspended")
            ELSE IF r.n # 0
            THEN read_line_in_place([f EXCEPT !.reader = r.buffer, !.at_fill = FALSE],
                                    r.avail, eof)
            ELSE Line([f EXCEPT !.at_fill = FALSE], avail,
                      IF f.offset = ReaderCapacity THEN "HeadersTooLong"
                      ELSE "UnexpectedEof")
    ELSE IF f.offset > Len(f.reader)
    THEN Line(f, avail, "Panic")           \* &available[offset..] out of range
    ELSE LET index == memchr(LF, Drop(f.reader, f.offset))
         IN IF index # -1
            THEN Line([f EXCEPT !.offset = @ + index + 1], avail, "Ok")
            ELSE read_line_in_place(
                     [f EXCEPT !.offset = @ + Len(f.reader), !.at_fill = TRUE], avail, eof)

\* transfer.rs:246-254: the line without its "\n" and then without a "\r"
StripLine(raw) ==
    LET a == IF raw # <<>> /\ raw[Len(raw)] = LF THEN SubSeq(raw, 1, Len(raw) - 1) ELSE raw
    IN IF a # <<>> /\ a[Len(a)] = 13 THEN SubSeq(a, 1, Len(a) - 1) ELSE a

is_whitespace(c) == c \in {9, 10, 11, 12, 13, 32}

RECURSIVE trim_start(_)
trim_start(s) == IF s # <<>> /\ is_whitespace(Head(s)) THEN trim_start(Tail(s)) ELSE s

RECURSIVE trim_end(_)
trim_end(s) ==
    IF s # <<>> /\ is_whitespace(s[Len(s)]) THEN trim_end(SubSeq(s, 1, Len(s) - 1)) ELSE s

is_digit(c) == c \in 48..57

\* transfer.rs:259-269; 0 stands for None
parse_version(version) ==
    IF Len(version) # 8 \/ version[7] # 46 THEN 0
    ELSE IF ~is_digit(version[6]) \/ ~is_digit(version[8]) THEN 0
    ELSE LET v == (version[6] - 48) * 10 + (version[8] - 48)
         IN IF v \in {9, 10, 11, 20, 30} THEN v ELSE 0

\* StatusCode::from_str: three digits, 100 to 999; 0 stands for Err
status_from_str(s) ==
    IF Len(s) = 3 /\ (\A i \in 1..3 : is_digit(s[i])) /\ s[1] # 48
    THEN (s[1] - 48) * 100 + (s[2] - 48) * 10 + (s[3] - 48)
    ELSE 0

\* the part of s before the first byte c, and the part after it (<<>> and
\* found = FALSE when there is none)
split_once(s, c) ==
    LET i == memchr(c, s)
    IN IF i = -1 THEN [found |-> FALSE, key |-> s, value |-> <<>>]
       ELSE [found |-> TRUE, key |-> SubSeq(s, 1, i), value |-> Drop(s, i + 1)]

\* transfer.rs:271-276; version 0 stands for None
parse_status_line(line) ==
    LET first == split_once(line, 32)
        version == parse_version(first.key)
        status == status_from_str(split_once(first.value, 32).key)
    IN IF version = 0 \/ ~first.found \/ status = 0
       THEN [version |-> 0, status |-> 0]
       ELSE [version |-> version, status |-> status]

\* HeaderName::try_from and HeaderValue::try_from succeed
is_header(line) ==
    LET kv == split_once(line, 58)
        key == trim_end(trim_start(kv.key))
        value == trim_start(kv.value)
    IN /\ key # <<>>
       /\ \A i \in 1..Len(key) :
            key[i] \in (48..57) \cup (65..90) \cup (97..122) \cup {45, 95}
       /\ \A i \in 1..Len(value) : value[i] = 9 \/ (value[i] >= 32 /\ value[i] # 127)

\* usize::checked_sub; -1 stands for None
checked_sub(a, b) == IF b > a THEN -1 ELSE a - b

\* reader.consume(offset) at the end of a line
consume(f) ==
    [f EXCEPT !.reader = Drop(@, f.offset), !.used = @ + f.offset, !.offset = 0]

Done(f, avail, ret) == [f |-> [f EXCEPT !.pc = "done", !.ret = ret], avail |-> avail]

\* transfer.rs:375-388: from the status line to the headers
after_status(f) ==
    IF f.version < f.request.min_version \/ f.version > f.request.max_version
    THEN [f EXCEPT !.pc = "done", !.ret = "UnexpectedVersion"]
    ELSE IF f.version = 9 THEN [f EXCEPT !.pc = "done", !.ret = "Ok"]
    ELSE IF checked_sub(f.request.maximum_header_size, f.total_size) = -1
    THEN [f EXCEPT !.pc = "done", !.ret = "HeadersTooLong"]
    ELSE [f EXCEPT !.pc = "headers",
                   !.size_limit = checked_sub(f.request.maximum_header_size, f.total_size)]

\* transfer.rs:280-306 within the loop of transfer.rs:313-337, for the line
\* r that read_line_in_place returned Ok
read_header_line_limited(r) ==
    LET line == StripLine(SubSeq(r.f.reader, 1, r.f.offset))
        read == r.f.offset
        g == consume(r.f)
    IN IF line = <<>> THEN [g EXCEPT !.pc = "done", !.ret = "Ok"]
       ELSE IF ~is_header(line)
       THEN [r.f EXCEPT !.offset = 0, !.pc = "done", !.ret = "InvalidHeader"]
       ELSE IF checked_sub(g.size_limit, read) = -1
       THEN [g EXCEPT !.head = @ + read, !.pc = "done", !.ret = "HeadersTooLong"]
       ELSE [g EXCEPT !.head = @ + read, !.headers = @ + 1,
                      !.size_limit = checked_sub(g.size_limit, read)]

\* transfer.rs:364-373: the status line r that read_line_in_place returned Ok
read_status_line(r) ==
    LET result == parse_status_line(StripLine(SubSeq(r.f.reader, 1, r.f.offset)))
        g == [consume(r.f) EXCEPT !.total_size = @ + r.f.offset, !.head = @ + r.f.offset]
    IN IF result.version = 0 THEN [g EXCEPT !.pc = "done", !.ret = "InvalidStatusLine"]
       ELSE after_status([g EXCEPT !.version = result.version, !.status = result.status])

----------------------------------------------------------------------------
(* Body::read_trailer (body.rs:221-250): one line of the trailer section,
   read with read_header_line_limited from the reader of the Body.  The
   frame of a call is held in `call`; ret is "Suspended" while the call
   waits for bytes, "None" for the empty line, "Some" for a trailer field *)

TrailerCall(offset, at_fill, ret, read) ==
    [fn |-> "read_trailer", offset |-> offset, at_fill |-> at_fill, ret |-> ret,
     read |-> read]

NewTrailerCall == TrailerCall(0, FALSE, "Pending", 0)

TrailerOut(b, avail, f) == [b |-> b, avail |-> avail, call |-> f]

\* transfer.rs:286-305 for the line r, then body.rs:232-248
trailer_line(b, r) ==
    LET line == StripLine(SubSeq(r.f.reader, 1, r.f.offset))
        rest == Drop(r.f.reader, r.f.offset)
    IN IF line = <<>>
       THEN TrailerOut([transfer |-> Empty, buffer |-> rest], r.avail,
                    TrailerCall(0, FALSE, "None", 0))
       ELSE IF ~is_header(line)
       THEN TrailerOut([b EXCEPT !.buffer = r.f.reader], r.avail,
                    TrailerCall(0, FALSE, "InvalidHeader", 0))
       ELSE TrailerOut([b EXCEPT !.buffer = rest], r.avail,
                    TrailerCall(0, FALSE, "Some", r.f.offset))

\* the line of a trailer, read in whatever state the decoder is
line_in_any_state(b, f, avail, eof) ==
    Let(read_line_in_place([reader |-> b.buffer, offset |-> f.offset,
                            at_fill |-> f.at_fill], avail, eof),
        LAMBDA r :
          CASE r.ret = "Suspended" ->
                 TrailerOut([b EXCEPT !.buffer = r.f.reader], r.avail,
                            TrailerCall(r.f.offset, r.f.at_fill, "Suspended", 0))
            [] r.ret = "Ok" -> trailer_line(b, r)
            [] OTHER ->
                 TrailerOut([b EXCEPT !.buffer = r.f.reader], r.avail,
                            TrailerCall(0, FALSE, r.ret, 0)))

\* a variant without the test of the state
read_trailer_in_any_state(b, f, avail, eof) == line_in_any_state(b, f, avail, eof)

\* Body::read_trailer, from where the frame f is
read_trailer(b, f, avail, eof) ==
    IF b.transfer # Trailers
    THEN TrailerOut(b, avail, TrailerCall(0, FALSE, "InvalidState", 0))
    ELSE line_in_any_state(b, f, avail, eof)

\* the frame a call of read_trailer starts from: the one that waits, or a new one
TrailerFrame ==
    IF call.fn = "read_trailer" /\ call.ret = "Suspended" THEN call ELSE NewTrailerCall

\* body.read_trailer(key, value); not while a read of the Body waits
ReadTrailer ==
    /\ conn # <<>>
    /\ ~rd.busy
    /\ \E r \in {read_trailer(body, TrailerFrame, conn.avail, Eof)} :
         /\ body' = r.b
         /\ conn' = [conn EXCEPT !.avail = r.avail]
         /\ call' = r.call
    /\ UNCHANGED <<ws, sock, task, res, rd>>

NextBody ==
    \/ \E n \in BufSizes : BodyRead(n)
    \/ \E k \in 1..MaxArrive : Arrive(k)
    \/ ReadTrailer

SpecBody == InitBody /\ [][NextBody]_vars

----------------------------------------------------------------------------
\* transfer.rs:342-391, run from where it is until it returns or has to wait
\* for bytes
RECURSIVE parse_response(_, _, _)
parse_response(f, avail, eof) ==
    IF f.pc = "done" THEN [f |-> f, avail |-> avail]
    ELSE IF f.pc = "prefix"
    THEN IF Len(f.reader) < Len(HTTP_PREFIX)
         THEN LET r == fill(f.reader, avail, eof)
              IN IF r.wait THEN [f |-> f, avail |-> avail]
                 ELSE IF r.n = 0 THEN Done(f, avail, "UnexpectedEof")
                 ELSE parse_response([f EXCEPT !.reader = r.buffer], r.avail, eof)
         ELSE IF SubSeq(f.reader, 1, Len(HTTP_PREFIX)) # HTTP_PREFIX
         THEN parse_response(after_status([f EXCEPT !.version = 9, !.status = 200]),
                             avail, eof)
         ELSE parse_response([f EXCEPT !.pc = "status"], avail, eof)
    ELSE LET r == read_line_in_place(f, avail, eof)
         IN IF r.ret = "Suspended" THEN [f |-> r.f, avail |-> r.avail]
            ELSE IF r.ret # "Ok" THEN Done(r.f, r.avail, r.ret)
            ELSE IF f.pc = "status"
            THEN parse_response(read_status_line(r), r.avail, eof)
            ELSE parse_response(read_header_line_limited(r), r.avail, eof)

(* Response heads, and how they reach parse_response *)

HeaderBudgets == {13, 14, 19, 20, 25, 64}      \* maximum_header_size

StatusLine == <<72, 84, 84, 80, 47, 49, 46, 49, 32, 50, 48, 48, 13, 10>>

\* a response of the lines `lines`, an empty line and the bytes `rest`
Response(status, lines, end, rest, whole, closes) ==
    Stream("head", Empty, status \o lines \o end \o rest, status, rest,
           <<Len(status) + Len(lines)>>, whole, closes)

HeadStreams ==
    {Response(StatusLine, <<>>, CRLF, <<120, 121>>, TRUE, c) : c \in BOOLEAN}
    \cup {Response(StatusLine, <<65, 58, 32, 98, 13, 10>>, CRLF, <<>>, TRUE, c) :
            c \in BOOLEAN}
    \cup {\* "A: b", "Cd:e", lines ended by "\n" alone
          Response(StatusLine, <<65, 58, 32, 98, 10, 67, 100, 58, 101, 10>>, <<LF>>,
                   <<120>>, TRUE, TRUE),
          \* a status line of ReaderCapacity bytes: "HTTP/1.1 200 OK\n"
          Response(<<72, 84, 84, 80, 47, 49, 46, 49, 32, 50, 48, 48, 32, 79, 75, 10>>,
                   <<>>, <<LF>>, <<>>, TRUE, TRUE),
          \* one byte more: "HTTP/1.1 200 OK\r\n"
          Response(<<72, 84, 84, 80, 47, 49, 46, 49, 32, 50, 48, 48, 32, 79, 75, 13, 10>>,
                   <<>>, CRLF, <<>>, FALSE, TRUE),
          \* the connection ends within a header line
          Response(StatusLine, <<65, 58>>, <<>>, <<>>, FALSE, TRUE),
          \* "HTTP/2.0 200"
          Response(<<72, 84, 84, 80, 47, 50, 46, 48, 32, 50, 48, 48, 13, 10>>, <<>>, CRLF,
                   <<>>, FALSE, TRUE),
          \* "HTTP/1.1 2x0"
          Response(<<72, 84, 84, 80, 47, 49, 46, 49, 32, 50, 120, 48, 13, 10>>, <<>>, CRLF,
                   <<>>, FALSE, TRUE),
          \* no status line: "hello"
          Response(<<>>, <<>>, <<>>, <<104, 101, 108, 108, 111>>, FALSE, TRUE),
          \* no status line, and the connection ends after "hi"
          Response(<<>>, <<>>, <<>>, <<104, 105>>, FALSE, TRUE)}

\* Options::min_version: the default (transfer.rs:45), and HTTP/0.9 let in
MinVersions == {10, 9}

beside_head == <<ws, sock, task, res, body, rd>>

\* transfer.rs:444-450: the reader is filled once, then parse_response runs
InitHead ==
    /\ NoWs
    /\ body = <<>>
    /\ rd = <<>>
    /\ \E s \in HeadStreams, m \in HeaderBudgets :
         \E j \in 1..Min(ReaderCapacity, Len(s.bytes)), v \in MinVersions :
           /\ call = Frame(SubSeq(s.bytes, 1, j),
                           [maximum_header_size |-> m, min_version |-> v,
                            max_version |-> 11])
           /\ conn = [avail |-> <<>>, later |-> Drop(s.bytes, j), sent |-> s]

\* parse_response goes on to r
Parsed(r) ==
    /\ r.f # call
    /\ call' = r.f
    /\ conn' = [conn EXCEPT !.avail = r.avail]
    /\ UNCHANGED beside_head

Parse ==
    /\ call.fn = "parse_response"
    /\ call.pc # "done"
    /\ \E r \in {parse_response(call, conn.avail, Eof)} : Parsed(r)

NextHead ==
    \/ Parse
    \/ \E k \in 1..MaxArrive : Arrive(k)

SpecHead == InitHead /\ [][NextHead]_vars

----------------------------------------------------------------------------
(* The response head (spec section 4.4) *)

\* the bytes parse_response has taken from the stream
C19_Taken == Len(conn.sent.bytes) - Len(conn.later) - Len(conn.avail) - Len(call.reader)

\* an accepted head: what was taken for the status line and the header
\* lines is within the budget, and beside it only the empty line was taken
C19_AcceptedWithinBudget ==
    (call.pc = "done" /\ call.ret = "Ok") =>
        /\ C19_Taken = call.used
        /\ call.head <= call.request.maximum_header_size
        /\ call.used - call.head <= Len(CRLF)

\* a well-formed head beyond the budget, once parse_response has returned
C19_OverBudgetRejected ==
    (/\ conn.sent.whole
     /\ conn.sent.sizes[1] > call.request.maximum_header_size
     /\ call.pc = "done")
        => call.ret = "HeadersTooLong"

\* C19: for every HTTP response that parse_response accepts, the number of
\* bytes consumed from the stream for the response head (status line plus
\* header lines) is <= maximum_header_size; a head exceeding the budget is
\* rejected with HeadersTooLong.
C19_HeadWithinBudget == C19_AcceptedWithinBudget /\ C19_OverBudgetRejected

----------------------------------------------------------------------------
(* transfer.rs:401-501: transfer and its redirect loop *)

MaxRedirects == 3       \* the largest follow_redirect tried
MaxRequests == 6        \* the requests a transfer is let to send

Schemes == {"http", "https"}
Hosts == {"a", "b"}

Url(scheme, host) == [scheme |-> scheme, host |-> host]

\* what a server may answer: a status, a Location header (none, one that is
\* no string, one url.join() refuses, or one that names host and scheme),
\* and whether Body::new takes its Content-Length
Locations ==
    {[kind |-> k, to |-> Url("http", "a")] : k \in {"none", "not_str", "unjoinable"}}
    \cup {[kind |-> "url", to |-> Url(s, h)] : s \in Schemes, h \in Hosts}

Responses ==
    [status : {200, 301, 304, 308, 404}, location : Locations, length_ok : BOOLEAN]

\* StatusCode::is_redirection
is_redirection(status) == status >= 300 /\ status < 400

\* a variant of line 466 that does not look at the counter
follows_any(left, status) == is_redirection(status)

\* transfer.rs:466
follows(left, status) == left > 0 /\ is_redirection(status)

\* body.rs:54-80: Body::new fails on a Content-Length that is no number,
\* unless the response has no body
body_new_ok(response) == response.length_ok \/ response.status = 304

NoResponse == [status |-> 0, location |-> [kind |-> "none", to |-> Url("http", "a")],
               length_ok |-> TRUE]

\* transfer.rs:405-422
\* the Host header the caller set on the request; "" when it set none
CallerHosts == {"", "c"}

\* transfer.rs:406-410: a request without a Host header gets the host of
\* its URL
host_header(caller, req_url) == IF caller = "" THEN req_url.host ELSE caller

InitTransfer ==
    /\ NoWs
    /\ NoHttp
    /\ \E n \in 0..MaxRedirects, s \in Schemes, caller \in CallerHosts :
         call = [fn |-> "transfer", pc |-> "request", follow_redirect |-> n,
                 caller_host |-> caller, host |-> host_header(caller, Url(s, "a")),
                 sent_host |-> <<>>,
                 redirects_remaining |-> n, req_url |-> Url(s, "a"), url |-> Url(s, "a"),
                 redirected_url |-> <<>>, requests |-> 0, redirected |-> 0,
                 ret |-> "Pending", response |-> NoResponse, response_url |-> <<>>,
                 redirections |-> 0, requested |-> <<>>, received |-> NoResponse]

beside_transfer == <<ws, sock, task, res, body, conn, rd>>

\* the answer the redirect loop is about: a 3xx with a Location of the
\* request's scheme, in a response Body::new takes
Redirection(response, scheme) ==
    /\ is_redirection(response.status)
    /\ response.location.kind = "url"
    /\ response.location.to.scheme = scheme
    /\ body_new_ok(response)

\* call.redirections counts such answers
Counted3xx(c, parsed, response) ==
    IF parsed /\ Redirection(response, c.req_url.scheme)
    THEN [c EXCEPT !.redirections = @ + 1] ELSE c

Return(c, ret) == call' = [c EXCEPT !.pc = "done", !.ret = ret]

\* transfer.rs:424-440: a connection for url, and the request sent on it
SendRequest(connected) ==
    /\ call.fn = "transfer"
    /\ call.pc = "request"
    /\ call.requests < MaxRequests
    /\ IF connected
       THEN call' = [call EXCEPT !.pc = "response", !.requests = @ + 1,
                                 !.requested = <<call.url>>,
                                 !.sent_host = <<call.host>>]
       ELSE Return(call, "ConnectError")
    /\ UNCHANGED beside_transfer

\* a variant that follows to the other scheme
Follow_any_scheme(c, response) ==
    IF response.location.kind = "not_str" THEN Return(c, "InvalidHeader")
    ELSE IF ~body_new_ok(response) THEN Return(c, "InvalidContentLength")
    ELSE IF response.location.kind = "unjoinable" THEN Return(c, "InvalidRedirectUrl")
    ELSE call' = [c EXCEPT !.pc = "request",
                           !.redirects_remaining = @ - 1,
                           !.redirected = @ + 1,
                           !.url = response.location.to,
                           !.redirected_url = <<response.location.to>>]

\* transfer.rs:466-493: the response is followed
Follow(c, response) ==
    IF response.location.kind = "not_str" THEN Return(c, "InvalidHeader")
    ELSE IF ~body_new_ok(response) THEN Return(c, "InvalidContentLength")
    ELSE IF response.location.kind = "unjoinable" THEN Return(c, "InvalidRedirectUrl")
    ELSE IF response.location.to.scheme # c.req_url.scheme
    THEN call' = [c EXCEPT !.pc = "done", !.ret = "RedirectForbidden",
                           !.redirects_remaining = @ - 1,
                           !.url = response.location.to,
                           !.redirected_url = <<response.location.to>>]
    ELSE call' = [c EXCEPT !.pc = "request",
                           !.redirects_remaining = @ - 1,
                           !.redirected = @ + 1,
                           !.url = response.location.to,
                           !.redirected_url = <<response.location.to>>]

\* transfer.rs:442-499: the response c got is followed or returned
Received(c, response) ==
    IF /\ follows(c.redirects_remaining, response.status)
       /\ response.location.kind # "none"
    THEN Follow(c, response)
    ELSE call' = [c EXCEPT !.pc = "done", !.ret = "Ok", !.response = response,
                           !.response_url = c.redirected_url]

\* transfer.rs:442-464: the response is read and parsed
Receive(parsed, response) ==
    /\ call.fn = "transfer"
    /\ call.pc = "response"
    /\ IF ~parsed THEN Return(call, "ParseError")
       ELSE Received(Counted3xx([call EXCEPT !.received = response], parsed, response),
                     response)
    /\ UNCHANGED beside_transfer

NextTransfer ==
    \/ \E connected \in BOOLEAN : SendRequest(connected)
    \/ \E parsed \in BOOLEAN, response \in Responses : Receive(parsed, response)

\* every request is answered
SpecTransfer == InitTransfer /\ [][NextTransfer]_vars /\ WF_vars(NextTransfer)

----------------------------------------------------------------------------
(* The redirect loop (spec section 4.4) *)

\* no connection has failed, and every request answered so far was answered
\* with a redirection
C20_AlwaysRedirected ==
    /\ call.ret # "ConnectError"
    /\ call.redirections = call.requests - (IF call.pc = "response" THEN 1 ELSE 0)

\* C20: with follow_redirect = N and a server that answers every request
\* with a 3xx carrying a valid same-scheme Location, transfer performs
\* exactly N+1 requests: it follows exactly N redirects and returns the
\* (N+1)-th 3xx response itself; the redirect loop therefore always
\* terminates after at most N+1 requests.
C20_FollowsNThenReturns ==
    /\ [](/\ call.requests <= call.follow_redirect + 1
          /\ C20_AlwaysRedirected =>
               /\ call.redirected <= call.follow_redirect
               /\ call.redirected + call.redirects_remaining = call.follow_redirect
               /\ call.pc = "done" =>
                    /\ call.ret = "Ok"
                    /\ call.requests = call.follow_redirect + 1
                    /\ call.redirected = call.follow_redirect
                    /\ Redirection(call.response, call.req_url.scheme))
    /\ <>(call.pc = "done")

\* three redirects were followed and the fourth 3xx was returned
C20_ReturnedFourth3xx ==
    /\ call.fn = "transfer"
    /\ call.pc = "done"
    /\ call.follow_redirect = 3
    /\ call.requests = 4
    /\ call.redirections = 4
    /\ call.redirected = 3
    /\ call.ret = "Ok"
    /\ call.response.status = 308
    /\ call.response_url = <<call.url>>

----------------------------------------------------------------------------
(* dns/name_server.rs: a name-server transaction and its answer *)

DNS_TIMEOUT == 5        \* duration!(5 s), in clock ticks
MaxDatagrams == 3       \* the datagrams that reach one transaction

QueryIds == {1, 2}

Record(name, class, type, data) == [name |-> name, class |-> class, type |-> type, data |-> data]

Query(qname, qclass, qtype) == [qname |-> qname, qclass |-> qclass, qtype |-> qtype]

Queries == {Query("q", "IN", "A"), Query("q", "IN", "AAAA")}

AnswerSections ==
    {<<>>,
     <<Record("q", "IN", "A", 1)>>,
     <<Record("q", "IN", "AAAA", 3)>>,
     <<Record("o", "IN", "A", 4)>>,
     <<Record("q", "CH", "A", 5)>>,
     <<Record("q", "IN", "A", 1), Record("q", "IN", "A", 2)>>,
     <<Record("q", "IN", "CNAME", 7), Record("o", "IN", "A", 4)>>}

AuthoritySections == {<<>>, <<Record("z", "IN", "SOA", 6)>>, <<Record("q", "IN", "A", 2)>>}

AdditionalSections == {<<>>, <<Record("n", "IN", "A", 8)>>}

\* name_server.rs:23-29
Messages ==
    [rcode : {"NoError", "NXDomain"}, questions : {<<Query("q", "IN", "A")>>},
     answers : AnswerSections, name_servers : AuthoritySections,
     additional_records : AdditionalSections]

NoMessage_dns ==
    [rcode |-> "NoError", questions |-> <<>>, answers |-> <<>>, name_servers |-> <<>>,
     additional_records |-> <<>>]

\* what recv_from_addr hands over: bytes Packet::parse refuses, or a message
\* with its id
Datagrams ==
    {[parses |-> FALSE, id |-> 0, msg |-> NoMessage_dns]}
    \cup {[parses |-> TRUE, id |-> i, msg |-> m] : i \in QueryIds, m \in Messages}

\* name_server.rs:131-135: the record is pushed
is_kept(query, record) == record.class = query.qclass /\ record.type = query.qtype

Answer(ret, records, queries, soa, response_code) ==
    [ret |-> ret, records |-> records, queries |-> queries, soa |-> soa,
     response_code |-> response_code]

\* name_server.rs:115-159
extract(query, response) ==
    LET all == response.answers \o response.name_servers \o response.additional_records
        records == SelectSeq(all, LAMBDA r : is_kept(query, r))
        has_answer == \E i \in 1..Len(all) : all[i].name = query.qname
        no_records == Answer("NoRecords", <<>>, response.questions,
                             SubSeq(response.name_servers, 1, Min(1, Len(response.name_servers))),
                             response.rcode)
    IN IF response.rcode # "NoError" THEN no_records
       ELSE IF records # <<>> THEN Answer("Ok", records, <<>>, <<>>, "NoError")
       ELSE IF has_answer THEN Answer("NoData", <<>>, <<>>, <<>>, "NoError")
       ELSE no_records

\* a variant of lines 81-94 that takes the id for granted
is_response_any(id, datagram) == datagram.parses

\* name_server.rs:81-94: the datagram ends the loop
is_response(id, datagram) == datagram.parses /\ datagram.id = id

beside_dns == <<ws, sock, task, res, body, conn, rd>>

\* name_server.rs:104-107
InitLookup ==
    /\ NoWs
    /\ NoHttp
    /\ \E q \in Queries, i \in QueryIds :
         call = [fn |-> "lookup", pc |-> "send", query |-> q, id |-> i, elapsed |-> 0,
                 seen |-> 0, last |-> [parses |-> FALSE, id |-> 0, msg |-> NoMessage_dns],
                 answer |-> Answer("Pending", <<>>, <<>>, <<>>, "NoError")]

Fail(ret) ==
    call' = [call EXCEPT !.pc = "done", !.answer = Answer(ret, <<>>, <<>>, <<>>, "NoError")]

\* name_server.rs:60-74: the socket is connected and the query sent
Transact(sent) ==
    /\ call.fn = "lookup"
    /\ call.pc = "send"
    /\ IF sent THEN call' = [call EXCEPT !.pc = "recv"] ELSE Fail("Io")
    /\ UNCHANGED beside_dns

\* name_server.rs:76-97 and 113-159: recv_from_addr returns
Datagram(received, datagram) ==
    /\ call.fn = "lookup"
    /\ call.pc = "recv"
    /\ call.seen < MaxDatagrams
    /\ IF ~received THEN Fail("Io")
       ELSE IF is_response(call.id, datagram)
       THEN call' = [call EXCEPT !.pc = "done", !.seen = @ + 1, !.last = datagram,
                                 !.answer = extract(call.query, datagram.msg)]
       ELSE call' = [call EXCEPT !.seen = @ + 1, !.last = datagram]
    /\ UNCHANGED beside_dns

\* a second passes
LookupTick ==
    /\ call.fn = "lookup"
    /\ call.pc # "done"
    /\ call.elapsed < DNS_TIMEOUT
    /\ call' = [call EXCEPT !.elapsed = @ + 1]
    /\ UNCHANGED beside_dns

\* name_server.rs:111-113: the timeout cancels the transaction
LookupTimeout ==
    /\ call.fn = "lookup"
    /\ call.pc # "done"
    /\ call.elapsed = DNS_TIMEOUT
    /\ Fail("DnsTimedOut")
    /\ UNCHANGED beside_dns

NextLookup ==
    \/ \E sent \in BOOLEAN : Transact(sent)
    \/ \E received \in BOOLEAN, datagram \in Datagrams : Datagram(received, datagram)
    \/ LookupTick
    \/ LookupTimeout

\* time passes, and the timer fires when it is due
SpecLookup ==
    InitLookup /\ [][NextLookup]_vars /\ WF_vars(LookupTick) /\ WF_vars(LookupTimeout)

----------------------------------------------------------------------------
(* The name-server transaction (spec section 4.1) *)

Answered == call.answer.ret \in {"Ok", "NoData", "NoRecords"}

\* C21: in a name-server transaction, datagrams that fail to parse or whose
\* id differs from the query id are discarded and the transaction keeps
\* waiting; the transaction completes successfully only with a response
\* whose id equals the query id, and if no such response arrives within 5
\* seconds the lookup fails with DnsTimedOut.
C21_WaitsForItsId ==
    /\ [](/\ Answered => (call.pc = "done" /\ call.last.parses /\ call.last.id = call.id)
          /\ call.answer.ret = "DnsTimedOut" => call.elapsed = DNS_TIMEOUT
          /\ (call.pc = "recv" /\ call.seen > 0)
               => (~call.last.parses \/ call.last.id # call.id))
    /\ [][(call.seen' > call.seen /\ ~(call.last'.parses /\ call.last'.id = call.id))
            => call' = [call EXCEPT !.seen = call.seen', !.last = call.last']]_vars
    /\ <>(call.pc = "done")
    /\ [](call.elapsed = DNS_TIMEOUT => <>(call.pc = "done" /\ (Answered \/ call.answer.ret \in {"DnsTimedOut", "Io"})))

\* two datagrams were discarded, one unparsable and one of another id, and
\* the third was taken
C21_TookTheThird ==
    /\ call.fn = "lookup"
    /\ call.pc = "done"
    /\ call.seen = 3
    /\ call.id = 2
    /\ call.last.id = 2
    /\ call.answer.ret = "Ok"
    /\ call.elapsed = 4

\* what C28 says lookup returns for the response m to query
C28_Stated(query, m) ==
    LET all == m.answers \o m.name_servers \o m.additional_records
        matching == SelectSeq(all, LAMBDA r : /\ r.class = query.qclass
                                              /\ r.type = query.qtype
                                              /\ r.name = query.qname)
        soa == IF m.name_servers = <<>> THEN <<>> ELSE <<m.name_servers[1]>>
    IN IF m.rcode = "NoError" /\ matching # <<>>
       THEN Answer("Ok", matching, <<>>, <<>>, "NoError")
       ELSE IF m.rcode = "NoError" /\ \E i \in 1..Len(all) : all[i].name = query.qname
       THEN Answer("NoData", <<>>, <<>>, <<>>, "NoError")
       ELSE Answer("NoRecords", <<>>, m.questions, soa, m.rcode)

\* C28: name-server answer extraction: on response code NoError, the
\* records returned are exactly those records of the answer, authority and
\* additional sections whose class and type equal the query's and whose
\* name equals the query name; if there is none but some record bears the
\* query name the result is NoData; otherwise (or on any other response
\* code) the result is NoRecords carrying the response questions, the first
\* authority record as soa and the response code.
C28_AnswerExtraction ==
    (call.fn = "lookup" /\ Answered) => call.answer = C28_Stated(call.query, call.last.msg)

----------------------------------------------------------------------------
(* dns/resolver.rs: the resolver and its providers *)

ROUNDS == 3             \* for _ in 0..3

\* resolver.rs:68-82: the hosts file, then the name servers of resolv.conf
Resolver_new(name_servers) == <<"hosts">> \o name_servers

NameServerLists == {<<>>, <<"ns1">>, <<"ns1", "ns2">>, <<"ns2", "ns1">>}

\* what a provider's lookup returns: an error, or records
Lookups ==
    {[ok |-> FALSE, err |-> e, records |-> <<>>] : e \in {"NoData", "DnsTimedOut"}}
    \cup {[ok |-> TRUE, err |-> "", records |-> r] : r \in {<<1>>, <<1, 2>>}}

NoLookup == [ok |-> FALSE, err |-> "Pending", records |-> <<>>]

LookupIp(v4, v6) == [v4 |-> v4, v6 |-> v6]

\* a variant of lines 94-112 that wants both queries answered
success_of_both(a, aaaa) == a.ok /\ aaaa.ok

\* resolver.rs:94-112: success
success(a, aaaa) == a.ok \/ aaaa.ok

\* resolver.rs:96-110: the error after a visit
error_after(error, a, aaaa) == IF ~aaaa.ok THEN aaaa.err ELSE IF ~a.ok THEN a.err ELSE error

\* resolver.rs:85-89
InitResolve ==
    /\ NoWs
    /\ NoHttp
    /\ \E ns \in NameServerLists :
         call = [fn |-> "resolve_ips", pc |-> "join", services |-> Resolver_new(ns),
                 round |-> 0, index |-> 1, error |-> "", result |-> LookupIp(<<>>, <<>>),
                 a |-> NoLookup, aaaa |-> NoLookup, last_a |-> NoLookup,
                 last_aaaa |-> NoLookup, visited |-> <<>>, ret |-> "Pending"]

\* resolver.rs:93-118: join has returned a and aaaa for the provider of c
Joined(c, a, aaaa) ==
    LET d == [c EXCEPT !.a = NoLookup, !.aaaa = NoLookup, !.last_a = a, !.last_aaaa = aaaa,
                       !.visited = Append(@, c.services[c.index]),
                       !.error = error_after(@, a, aaaa),
                       !.result = LookupIp(@.v4 \o a.records, @.v6 \o aaaa.records)]
    IN IF success(a, aaaa) THEN [d EXCEPT !.pc = "done", !.ret = "Ok"]
       ELSE IF c.index < Len(c.services) THEN [d EXCEPT !.index = @ + 1]
       ELSE IF c.round + 1 < ROUNDS THEN [d EXCEPT !.round = @ + 1, !.index = 1]
       ELSE [d EXCEPT !.pc = "done", !.ret = "Err"]

\* one of the two lookups of the provider returns; join returns with the
\* second
LookupReturned(which, r) ==
    /\ call.fn = "resolve_ips"
    /\ call.pc = "join"
    /\ IF which = "a"
       THEN /\ call.a = NoLookup
            /\ call' = IF call.aaaa = NoLookup THEN [call EXCEPT !.a = r]
                       ELSE Joined(call, r, call.aaaa)
       ELSE /\ call.aaaa = NoLookup
            /\ call' = IF call.a = NoLookup THEN [call EXCEPT !.aaaa = r]
                       ELSE Joined(call, call.a, r)
    /\ UNCHANGED beside_dns

NextResolve == \E which \in {"a", "aaaa"}, r \in Lookups : LookupReturned(which, r)

\* every lookup returns
SpecResolve == InitResolve /\ [][NextResolve]_vars /\ WF_vars(NextResolve)

----------------------------------------------------------------------------
(* The resolution algorithm (spec section 4.1) *)

\* the first k providers visited in rounds over services
RECURSIVE C27_Order(_, _)
C27_Order(services, k) ==
    IF k = 0 THEN <<>>
    ELSE Append(C27_Order(services, k - 1), services[((k - 1) % Len(services)) + 1])

\* C27: resolve_ips on a non-literal name visits providers in order (hosts
\* file first, then name servers in resolv.conf order) for at most 3 rounds,
\* issuing the A and AAAA queries of one provider together and waiting for
\* both; it returns at the first provider for which at least one of the two
\* queries succeeds, with exactly that provider's successful records (a
\* failing sibling's error is discarded and no later provider is
\* consulted); if every visit fails it returns the last error observed,
\* after exactly 3 x (number of providers) visits.
C27_ProvidersInOrder ==
    /\ [](LET n == Len(call.services)
              k == Len(call.visited)
          IN /\ call.services[1] = "hosts"
             /\ k <= ROUNDS * n
             /\ call.visited = C27_Order(call.services, k)
             /\ call.pc = "join" =>
                  /\ call.result = LookupIp(<<>>, <<>>)
                  /\ k < ROUNDS * n
                  /\ k > 0 => (~call.last_a.ok /\ ~call.last_aaaa.ok)
             /\ (call.pc = "done" /\ call.ret = "Ok") =>
                  /\ call.last_a.ok \/ call.last_aaaa.ok
                  /\ call.result = LookupIp(call.last_a.records, call.last_aaaa.records)
             /\ (call.pc = "done" /\ call.ret = "Err") =>
                  /\ k = ROUNDS * n
                  /\ ~call.last_a.ok /\ ~call.last_aaaa.ok
                  /\ call.error = call.last_aaaa.err)
    /\ [][/\ Len(call.visited') > Len(call.visited)
             => (call.a # NoLookup \/ call.aaaa # NoLookup)
          /\ (call.pc = "done") => (call' = call)]_vars
    /\ <>(call.pc = "done")

\* the hosts file and the first name server failed, the second name server
\* answered the AAAA query alone
C27_ThirdProviderAnswered ==
    /\ call.fn = "resolve_ips"
    /\ call.pc = "done"
    /\ call.ret = "Ok"
    /\ call.visited = <<"hosts", "ns2", "ns1">>
    /\ ~call.last_a.ok
    /\ call.result = LookupIp(<<>>, <<1, 2>>)

----------------------------------------------------------------------------
(* body.rs:45-89: Body::new *)

CHUNKED == <<99, 104, 117, 110, 107, 101, 100>>       \* "chunked"

\* body.rs:63-69: one of the comma-separated encodings, trimmed, is "chunked"
RECURSIVE has_chunked(_)
has_chunked(encoding) ==
    LET kv == split_once(encoding, 44)
    IN \/ trim_end(trim_start(kv.key)) = CHUNKED
       \/ kv.found /\ has_chunked(kv.value)

\* body.rs:54-58
bodyless(method, status) ==
    method = "HEAD" \/ status \in {204, 304} \/ (status >= 100 /\ status < 200)

\* body.rs:48-88; te and cl are the headers transfer-encoding and
\* content-length, cl.n the number from_str_radix makes of it (-1: none)
Body_new(method, status, te, cl) ==
    IF bodyless(method, status) THEN [ret |-> "Ok", transfer |-> Empty]
    ELSE IF te.present
    THEN [ret |-> "Ok",
          transfer |-> IF has_chunked(te.value) THEN Chunks("Size", 0) ELSE Connection]
    ELSE IF cl.present
    THEN IF cl.n # -1 THEN [ret |-> "Ok", transfer |-> Length(cl.n)]
         ELSE [ret |-> "InvalidContentLength", transfer |-> Connection]
    ELSE [ret |-> "Ok", transfer |-> Connection]

TransferEncodings ==
    {[present |-> FALSE, value |-> <<>>]}
    \cup {[present |-> TRUE, value |-> v] :
            v \in {<<99, 104, 117, 110, 107, 101, 100>>,
                   <<103, 122, 105, 112, 44, 32, 99, 104, 117, 110, 107, 101, 100>>,
                   <<103, 122, 105, 112, 44, 99, 104, 117, 110, 107, 101, 100, 32>>,
                   <<67, 104, 117, 110, 107, 101, 100>>,
                   <<103, 122, 105, 112>>,
                   <<103, 122, 105, 112, 44, 32, 67, 72, 85, 78, 75, 69, 68>>}}

ContentLengths ==
    {[present |-> FALSE, n |-> -1]} \cup {[present |-> TRUE, n |-> n] : n \in {-1, 0, 3}}

InitNew ==
    /\ NoWs
    /\ NoHttp
    /\ call \in [fn : {"Body::new"}, method : {"GET", "HEAD"},
                 status : {100, 200, 204, 301, 304}, te : TransferEncodings,
                 cl : ContentLengths, ret : {"Pending"}]

\* response.rs:22: the Body of the response is made
BodyNew ==
    /\ call.fn = "Body::new"
    /\ call.ret = "Pending"
    /\ \E r \in {Body_new(call.method, call.status, call.te, call.cl)} :
         /\ call' = [call EXCEPT !.ret = r.ret]
         /\ body' = [transfer |-> r.transfer, buffer |-> <<>>]
    /\ UNCHANGED <<ws, sock, task, res, conn, rd>>

NextNew == BodyNew

SpecNew == InitNew /\ [][NextNew]_vars

----------------------------------------------------------------------------
(* Transfer-mode selection (spec section 4.5) *)

C22_Lower(c) == IF c \in 65..90 THEN c + 32 ELSE c

\* the comma-separated list holds "chunked" in any case
RECURSIVE C22_ListsChunked(_)
C22_ListsChunked(value) ==
    LET kv == split_once(value, 44)
        item == trim_end(trim_start(kv.key))
    IN \/ [i \in 1..Len(item) |-> C22_Lower(item[i])] = CHUNKED
       \/ kv.found /\ C22_ListsChunked(kv.value)

\* C22: body transfer mode is chosen by this precedence over (method,
\* status, headers): (1) method HEAD or status 204, 304 or 1xx gives Empty
\* regardless of headers; (2) otherwise a Transfer-Encoding header whose
\* comma-separated list contains 'chunked' (compared case-insensitively)
\* gives Chunks(Size); (3) otherwise a Content-Length that is present and
\* parses as u64 gives Length(n) - including when a Transfer-Encoding header
\* is present but does not contain chunked; (4) otherwise Connection.
C22_ModePrecedence ==
    (call.fn = "Body::new" /\ call.ret # "Pending") =>
        /\ call.ret = "Ok"
        /\ body.transfer =
             (IF call.method = "HEAD" \/ call.status \in {204, 304} \cup (100..199)
              THEN Empty
              ELSE IF call.te.present /\ C22_ListsChunked(call.te.value)
              THEN Chunks("Size", 0)
              ELSE IF call.cl.present /\ call.cl.n # -1 THEN Length(call.cl.n)
              ELSE Connection)

----------------------------------------------------------------------------
(* The states of the chunked decoder (spec section 4.5) *)

\* one step of the loop of read_chunks (body.rs:178-219) from the state of b
decoder_step(b, n, avail, eof) ==
    CASE b.transfer.st = "Size" -> read_chunk_size(b, avail, eof)
      [] b.transfer.st = "Data" ->
           read_counted(b, b.transfer.n, n, avail, eof, Chunks("Trailer", 0),
                        LAMBDA k : Chunks("Data", k))
      [] OTHER -> read_until_newline(b, avail, eof)

\* the digits of the size line that b and the arrived bytes hold
C23_Digits(b, avail) ==
    LET ahead == b.buffer \o avail
    IN IF FirstNonHex(ahead) = -1 THEN ahead ELSE SubSeq(ahead, 1, FirstNonHex(ahead))

\* the step r from b is one of the transitions, or leaves the state as it was
C23_Allowed(b, avail, r) ==
    LET from == b.transfer
        to == r.b.transfer
        k == Len(r.data)
    IN /\ r.ret # "Ok" => to = from /\ r.data = <<>>
       /\ \/ to = from /\ r.data = <<>>
          \/ /\ from.st = "Size" /\ r.ret = "Ok" /\ r.data = <<>>
             /\ to = Chunks("Extension", from_str_radix16(C23_Digits(b, avail)).value)
          \/ /\ from.st = "Extension" /\ r.ret = "Ok" /\ r.data = <<>>
             /\ to = IF from.n > 0 THEN Chunks("Data", from.n) ELSE Trailers
          \/ /\ from.st = "Data" /\ r.ret = "Ok" /\ 0 < k /\ k < from.n
             /\ to = Chunks("Data", Minus(from.n, k))
          \/ /\ from.st = "Data" /\ r.ret = "Ok" /\ 0 < k /\ k = from.n
             /\ to = Chunks("Trailer", 0)
          \/ /\ from.st = "Trailer" /\ r.ret = "Ok" /\ r.data = <<>>
             /\ to = Chunks("Size", 0)

\* every step of a read from b on, up to the step that returns bytes
RECURSIVE C23_Steps(_, _, _)
C23_Steps(b, n, avail) ==
    b.transfer.t = "Chunks" =>
        Let(decoder_step(b, n, avail, Eof),
            LAMBDA r : /\ C23_Allowed(b, avail, r)
                       /\ (r.ret = "Ok" /\ b.transfer.st # "Data")
                            => C23_Steps(r.b, n, r.avail))

\* what a read and what read_trailer do to the state where the decoder is
C23_FromHere ==
    /\ \A n \in BufSizes : C23_Steps(body, n, conn.avail)
    /\ body.transfer \in {Trailers, Empty} =>
         \A n \in BufSizes : async_read(body, n, conn.avail, Eof).b = body
    /\ Let(read_trailer(body, TrailerFrame, conn.avail, Eof),
           LAMBDA r :
             /\ body.transfer # Trailers => r.b = body /\ r.call.ret = "InvalidState"
             /\ body.transfer = Trailers =>
                  /\ r.b.transfer \in {Trailers, Empty}
                  /\ r.b.transfer = Empty <=> r.call.ret = "None")

\* a step of the Body that changes the state of the decoder
C23_Changed ==
    body'.transfer # body.transfer =>
        \/ body.transfer.t = "Chunks" /\ body'.transfer.t \in {"Chunks", "Trailers"}
        \/ /\ body.transfer = Trailers /\ body'.transfer = Empty
           /\ call'.fn = "read_trailer" /\ call'.ret = "None"

\* C23: the state of the chunked decoder changes only from Size to
\* Extension(n) with n the parsed size, from Extension(n) to Data(n) if n > 0
\* and from Extension(0) to Trailers, from Data(r) to Data(r - k) for a read
\* of 0 < k < r bytes and to Trailer for the read that drains it, from
\* Trailer to Size, and from Trailers to Empty through read_trailer only; an
\* EOF or a parse error leaves the state where it was.
C23_DecoderTransitions ==
    /\ [](conn.sent.mode = "chunked" => C23_FromHere)
    /\ [][conn.sent.mode = "chunked" => C23_Changed]_vars

\* the trailer field and the empty line after the chunk of ten bytes were read
C23_ThroughToEmpty ==
    /\ conn.sent.sizes = <<10, 0>>
    /\ rd.total = conn.sent.payload
    /\ body.transfer = Empty
    /\ call.fn = "read_trailer"
    /\ call.ret = "None"

----------------------------------------------------------------------------
(* What the chunked decoder has consumed of the wire (spec section 4.5) *)

\* the bytes of the body taken out of the reader and the connection so far
C24_Consumed ==
    Len(conn.sent.bytes) - Len(conn.later) - Len(conn.avail) - Len(body.buffer)

\* The chunks of a body as they lie on the wire from offset `at` on: where
\* the size line starts, how many digits it has, where the data starts (after
\* the LF of the size line), the size, and where the next size line starts
\* (after the LF that follows the data)
RECURSIVE C24_Chunks(_, _)
C24_Chunks(bytes, at) ==
    LET rest == Drop(bytes, at)
        lf == memchr(LF, rest)
        digits == IF FirstNonHex(rest) = -1 THEN rest
                  ELSE SubSeq(rest, 1, FirstNonHex(rest))
        size == from_str_radix16(digits)
        data == at + lf + 1
        end == memchr(LF, Drop(bytes, data + size.value))
        after == data + size.value + end + 1
        here == [line |-> at, digits |-> Len(digits), data |-> data,
                 size |-> size.value, next |-> after]
    IN IF lf = -1 \/ ~size.ok THEN <<>>
       ELSE IF size.value = 0 \/ data + size.value > Len(bytes) \/ end = -1
       THEN <<[here EXCEPT !.next = Len(bytes) + 1]>>
       ELSE <<here>> \o C24_Chunks(bytes, after)

\* the offsets in a trailer section where its lines start, up to the end of
\* the empty line
RECURSIVE C24_Lines(_, _)
C24_Lines(section, at) ==
    LET lf == memchr(LF, Drop(section, at))
    IN IF lf = -1 \/ StripLine(SubSeq(section, at + 1, at + lf + 1)) = <<>> THEN {at}
       ELSE {at} \cup C24_Lines(section, at + lf + 1)

\* the offset in a trailer section just after its empty line; -1 without one
RECURSIVE C24_End(_, _)
C24_End(section, at) ==
    LET lf == memchr(LF, Drop(section, at))
    IN IF lf = -1 THEN -1
       ELSE IF StripLine(SubSeq(section, at + 1, at + lf + 1)) = <<>> THEN at + lf + 1
       ELSE C24_End(section, at + lf + 1)

\* where the decoder is on the wire, by its state
C24_Place(marks) ==
    LET at == C24_Consumed
        t == body.transfer
    IN \/ t = Chunks("Size", 0) /\ at = 0
       \/ \E i \in 1..Len(marks) :
            LET c == marks[i]
                section == Drop(conn.sent.bytes, c.data)
            IN \/ t = Chunks("Size", 0) /\ at = c.next
               \/ /\ t = Chunks("Extension", c.size)
                  /\ c.line + c.digits <= at /\ at < c.data
               \/ /\ t.t = "Chunks" /\ t.st = "Data" /\ 0 < t.n /\ t.n <= c.size
                  /\ c.size < HUGE => at = c.data + c.size - t.n
                  /\ at >= c.data
               \/ /\ t = Chunks("Trailer", 0)
                  /\ c.data + c.size <= at /\ at < c.next
               \/ /\ t = Trailers /\ c.size = 0
                  /\ at - c.data \in C24_Lines(section, 0)
                  /\ call.fn = "none" => at = c.data
               \/ /\ t = Empty /\ c.size = 0
                  /\ at - c.data = C24_End(section, 0)

\* read_trailer where the decoder is: an error outside Trailers, and in
\* Trailers with the empty line ahead the step to Empty that takes that line
C24_ReadTrailer ==
    LET ahead == body.buffer \o conn.avail
        lf == memchr(LF, ahead)
    IN Let(read_trailer(body, TrailerFrame, conn.avail, Eof),
           LAMBDA r :
             /\ body.transfer # Trailers => r.b = body /\ r.avail = conn.avail
             /\ (/\ body.transfer = Trailers
                 /\ lf # -1
                 /\ StripLine(SubSeq(ahead, 1, lf + 1)) = <<>>)
                  => /\ r.b.transfer = Empty
                     /\ r.b.buffer \o r.avail = Drop(ahead, lf + 1))

\* the step into Trailers ends just after the line of the chunk of size zero
C24_IntoTrailers ==
    (body.transfer # Trailers /\ body'.transfer = Trailers) =>
        \E i \in 1..Len(C24_Chunks(conn.sent.bytes, 0)) :
            LET c == C24_Chunks(conn.sent.bytes, 0)[i]
            IN /\ c.size = 0
               /\ Len(body'.buffer) + Len(conn'.avail) + Len(conn'.later)
                     = Len(conn.sent.bytes) - c.data

\* C24: the chunked decoder never consumes a byte beyond the LF that ends
\* the size line or the data chunk it is at: reads in Data take at most the
\* bytes the chunk has left; on entering Trailers the next unconsumed byte is
\* the first one after the line of the zero-size chunk; read_trailer is an
\* error that changes nothing outside Trailers, and in Trailers it starts at
\* the start of the trailer section and moves to Empty on the empty line.
C24_NothingBeyondTheLine ==
    /\ [](conn.sent.mode = "chunked" =>
            /\ Let(C24_Chunks(conn.sent.bytes, 0), LAMBDA marks : C24_Place(marks))
            /\ C24_ReadTrailer)
    /\ [][conn.sent.mode = "chunked" => C24_IntoTrailers]_vars

\* after "hi" and "abc" the decoder is in Trailers with the empty line, and
\* nothing else, still to be read
C24_AtTheTrailers ==
    /\ conn.sent.sizes = <<2, 3, 0>>
    /\ body.transfer = Trailers
    /\ call.fn = "none"
    /\ body.buffer \o conn.avail \o conn.later = CRLF

----------------------------------------------------------------------------
(* The version of a response (spec section 4.4) *)

\* the response does not start with "HTTP/"
C25_NoPrefix ==
    /\ Len(conn.sent.bytes) >= Len(HTTP_PREFIX)
    /\ SubSeq(conn.sent.bytes, 1, Len(HTTP_PREFIX)) # HTTP_PREFIX

\* parse_response returned an HTTP/0.9 response of status 200 without
\* headers and took no byte from the stream
C25_Http09 ==
    /\ call.ret = "Ok"
    /\ call.version = 9
    /\ call.status = 200
    /\ call.headers = 0
    /\ C19_Taken = 0

\* C25: a response whose first five bytes are not "HTTP/" is accepted by
\* parse_response as an HTTP/0.9 response with status 200 and no headers,
\* with no bytes consumed; a response whose parsed version lies outside
\* [min_version, max_version] is rejected with UnexpectedVersion.
C25_Http09Accepted ==
    (call.fn = "parse_response" /\ call.pc = "done") =>
        /\ C25_NoPrefix => C25_Http09
        /\ (/\ ~C25_NoPrefix
            /\ call.version # 0
            /\ \/ call.version < call.request.min_version
               \/ call.version > call.request.max_version)
             => call.ret = "UnexpectedVersion"

----------------------------------------------------------------------------
(* What the redirect loop follows and what it returns (spec section 4.4) *)

\* the step in which transfer takes the response call'.received
C26_Takes == call.fn = "transfer" /\ call.pc = "response" /\ call'.ret # "ParseError"

\* the response is followed: the loop goes on to the next request
C26_Followed == C26_Takes /\ call'.pc = "request"

\* a response with a Location that resolves to a URL, in a response
\* Body::new takes
C26_Resolves(response) == response.location.kind = "url" /\ body_new_ok(response)

C26_Step ==
    LET response == call'.received
    IN /\ C26_Followed =>
            /\ is_redirection(response.status)
            /\ call.redirects_remaining > 0
            /\ response.location.kind # "none"
            /\ call'.redirects_remaining = call.redirects_remaining - 1
            /\ call'.url = response.location.to
       /\ (/\ C26_Takes
           /\ is_redirection(response.status)
           /\ response.location.kind = "none")
            => /\ call'.pc = "done" /\ call'.ret = "Ok" /\ call'.response = response
               /\ call'.redirects_remaining = call.redirects_remaining
       /\ (/\ C26_Takes
           /\ is_redirection(response.status)
           /\ call.redirects_remaining > 0
           /\ C26_Resolves(response)
           /\ response.location.to.scheme # call.req_url.scheme)
            => /\ call'.pc = "done" /\ call'.ret = "RedirectForbidden"
               /\ call'.requests = call.requests
       /\ (C26_Takes /\ call'.pc = "done" /\ call'.ret = "Ok") =>
            /\ call'.response = response
            /\ call'.response_url # <<>> <=> call.redirected > 0
            /\ call.redirected > 0 => call'.response_url = call.requested

\* no request goes to a URL of another scheme than the request's
C26_SameScheme ==
    (call.fn = "transfer" /\ call.requested # <<>>) =>
        call.requested[1].scheme = call.req_url.scheme

\* C26: transfer follows a response only when its status is 3xx, the
\* redirect counter is above 0 and a Location header is present (a 3xx
\* without Location is returned as the response and the counter is not
\* decremented); a redirect whose resolved URL has another scheme than the
\* request's ends the transfer with RedirectForbidden and no request is sent
\* to the new URL; the url of the returned response is set exactly when at
\* least one redirect was followed, and is then the last URL requested.
C26_FollowsAndReturns == []C26_SameScheme /\ [][C26_Step]_vars

\* two redirects were followed, the second to host b, and the 200 that
\* host b answered was returned with the URL of host b
C26_ReturnedAfterTwo ==
    /\ call.fn = "transfer"
    /\ call.pc = "done"
    /\ call.ret = "Ok"
    /\ call.redirected = 2
    /\ call.response.status = 200
    /\ call.response_url = <<Url(call.req_url.scheme, "b")>>
    /\ call.requested = call.response_url

\* a redirect to the other scheme ended the transfer after one request
C26_Forbidden ==
    /\ call.fn = "transfer"
    /\ call.ret = "RedirectForbidden"
    /\ call.requests = 1
    /\ call.received.location.to.scheme # call.req_url.scheme

----------------------------------------------------------------------------
(* The dial loop (spec section 4.2): Conn::connect_to of net/conn.rs and
   Connection::connect_to of net/connection.rs, over the addresses a lookup
   returned.  One turn of the loop of connect_addrs is one step *)

MaxAddrs == 2           \* the addresses of one family a lookup returns

Strategies == {"Default", "Ipv4Only", "Ipv6Only", "PreferIpv4", "PreferIpv6"}

\* LookupIp::v4 and LookupIp::v6
AddrsOf(family) ==
    {[i \in 1..n |-> [family |-> family, ip |-> i]] : n \in 0..MaxAddrs}

\* net/conn.rs:194-208
Conn_connect_to(strategy, v4, v6) ==
    CASE strategy = "PreferIpv4" -> v4 \o v6
      [] strategy = "Ipv4Only" -> v4
      [] strategy = "Ipv6Only" -> v6
      [] OTHER -> v6 \o v4

\* net/connection.rs:193-210
Connection_connect_to(strategy, v4, v6) ==
    CASE strategy \in {"Default", "Ipv4Only"} -> v4
      [] strategy = "Ipv6Only" -> v6
      [] strategy = "PreferIpv4" -> v4 \o v6
      [] OTHER -> v6 \o v4

\* the addresses connect_addrs is called with
connect_to(module, strategy, v4, v6) ==
    IF module = "conn" THEN Conn_connect_to(strategy, v4, v6)
    ELSE Connection_connect_to(strategy, v4, v6)

\* conn.rs:191 and connection.rs:189: the loop has run out of addresses
exhausted(module, error) ==
    IF error # "None" THEN error
    ELSE IF module = "conn" THEN "NoAddresses" ELSE "Panic"     \* error.unwrap()

InitDial ==
    /\ NoWs
    /\ NoHttp
    /\ \E module \in {"conn", "connection"}, strategy \in Strategies,
          v4 \in AddrsOf(4), v6 \in AddrsOf(6) :
         call = [fn |-> "connect_to", pc |-> "start", module |-> module,
                 strategy |-> strategy, v4 |-> v4, v6 |-> v6, addrs |-> <<>>,
                 tried |-> <<>>, tcp_tries |-> 0, error |-> "None", ret |-> "Pending"]

Dialed(c, ret) == call' = [c EXCEPT !.pc = "done", !.ret = ret]

\* connect_to calls connect_addrs, which returns at once without addresses
ConnectTo ==
    /\ call.fn = "connect_to"
    /\ call.pc = "start"
    /\ \E addrs \in {connect_to(call.module, call.strategy, call.v4, call.v6)} :
         IF addrs = <<>> THEN Dialed(call, exhausted(call.module, call.error))
         ELSE call' = [call EXCEPT !.pc = "connect", !.addrs = addrs]
    /\ UNCHANGED beside_transfer

\* the attempt c has failed with err
AttemptFailed(c, err, close_failed, interrupted) ==
    IF c.module = "connection" /\ close_failed THEN Dialed(c, "CloseError")
    ELSE IF interrupted THEN Dialed([c EXCEPT !.error = err], "Interrupted")
    ELSE IF Tail(c.addrs) = <<>> THEN Dialed([c EXCEPT !.error = err, !.addrs = <<>>], err)
    ELSE call' = [c EXCEPT !.error = err, !.addrs = Tail(@)]

\* one turn of the loop: a socket for the next address, the connect, and
\* after a failure the check for an interrupt
Attempt(socket, err, close_failed, interrupted) ==
    /\ call.fn = "connect_to"
    /\ call.pc = "connect"
    /\ IF ~socket THEN Dialed(call, "SocketError")
       ELSE LET c == [call EXCEPT !.tcp_tries = @ + 1,
                                  !.tried = Append(@, Head(call.addrs))]
            IN IF err = "None" THEN Dialed(c, "Ok")
               ELSE AttemptFailed(c, err, close_failed, interrupted)
    /\ UNCHANGED beside_transfer

NextDial ==
    \/ ConnectTo
    \/ \E socket, close_failed, interrupted \in BOOLEAN :
         \E err \in {"None", "Refused", "Unreachable"} :
           Attempt(socket, err, close_failed, interrupted)

\* every connect returns
SpecDial == InitDial /\ [][NextDial]_vars /\ WF_vars(NextDial)

\* the order of the strategy: IPv6 first unless IPv4 is preferred, one
\* family alone for Ipv4Only and Ipv6Only
C29_Order ==
    CASE call.strategy = "PreferIpv4" -> call.v4 \o call.v6
      [] call.strategy = "Ipv4Only" -> call.v4
      [] call.strategy = "Ipv6Only" -> call.v6
      [] OTHER -> call.v6 \o call.v4

\* C29: the dial loop attempts the candidate addresses strictly in the
\* order of the strategy (Default and PreferIpv6: all v6 then all v4;
\* PreferIpv4: all v4 then all v6; Ipv4Only, Ipv6Only: that family only),
\* one connect at a time, and returns the first address that connects; after
\* a failed attempt the error is remembered and the next candidate is tried
\* unless the task was cancelled; with no candidate left it returns the
\* error of the last attempt, or NoAddresses if there was no candidate;
\* tcp_tries is the number of attempts made.
C29_InStrategyOrder ==
    call.fn = "connect_to" =>
        /\ IsPrefix(call.tried, C29_Order)
        /\ call.tcp_tries = Len(call.tried)
        /\ call.pc = "connect" =>
             /\ call.tried \o call.addrs = C29_Order
             /\ call.tried # <<>> => call.error # "None"
        /\ (call.pc = "done" /\ call.ret \notin {"SocketError", "Interrupted", "Ok"}) =>
             /\ call.tried = C29_Order
             /\ call.ret = IF C29_Order = <<>> THEN "NoAddresses" ELSE call.error

----------------------------------------------------------------------------
(* The TLS handshake loop (spec section 4.3): TlsConn::tls_connect of
   tls/conn.rs.  One pass of the loop is one step; what the socket and the
   TLS machine answer in it is free.  is_handshaking changes only when
   records are processed, and only from true to false *)

MaxPasses == 4          \* the passes a handshake is let to take

\* what process_new_packets leaves: an error, or the machine's answers
Machines == [ok : BOOLEAN, handshaking : BOOLEAN, wants_write : BOOLEAN,
             wants_read : BOOLEAN]

IoResults == {"zero", "some", "err"}

\* what one pass meets: the flags poll returns (or its error), the results
\* of write_tls and read_tls, whether output is left after a write, and the
\* machine after process_new_packets
Answers == [poll_ok : BOOLEAN, out : BOOLEAN, in : BOOLEAN, write : IoResults,
            left : BOOLEAN, read : IoResults, machine : Machines]

\* ClientConnection::new: handshaking, with the first flight to write
InitTls ==
    /\ NoWs
    /\ NoHttp
    /\ \E wants_read \in BOOLEAN :
         call = [fn |-> "tls_connect", pc |-> "poll", ret |-> "Pending", eof |-> FALSE,
                 handshaking |-> TRUE, wants_write |-> TRUE, wants_read |-> wants_read,
                 passes |-> 0, writes |-> 0, eof_in_handshake |-> FALSE]

TlsReturn(c, ret) == [c EXCEPT !.pc = "done", !.ret = ret]

\* tls/conn.rs:118-120: write_tls when the socket can be written
tls_write(c, a) ==
    IF ~a.out THEN c
    ELSE IF a.write = "err" THEN TlsReturn([c EXCEPT !.writes = @ + 1], "IoError")
    ELSE IF a.write = "zero"
    THEN [c EXCEPT !.writes = @ + 1, !.eof = TRUE,
                   !.eof_in_handshake = @ \/ c.handshaking]
    ELSE [c EXCEPT !.writes = @ + 1, !.wants_write = a.left]

\* tls/conn.rs:126-137: read_tls and process_new_packets when the socket
\* can be read
tls_read(c, a) ==
    IF ~a.in THEN c
    ELSE IF a.read = "err" THEN TlsReturn(c, "IoError")
    ELSE IF a.read = "zero"
    THEN [c EXCEPT !.eof = TRUE, !.eof_in_handshake = @ \/ c.handshaking]
    ELSE IF ~a.machine.ok THEN TlsReturn(c, "TlsError")
    ELSE [c EXCEPT !.handshaking = a.machine.handshaking,
                   !.wants_write = a.machine.wants_write,
                   !.wants_read = a.machine.wants_read]

\* a variant that leaves with the handshake done, output pending or not
tls_end_of_pass_no_continue(handshaking, c) ==
    IF (handshaking /\ ~c.handshaking) \/ ~handshaking THEN TlsReturn(c, "Ok")
    ELSE IF c.eof THEN TlsReturn(c, "UnexpectedEof")
    ELSE c

\* tls/conn.rs:139-149: the end of a pass that began with `handshaking`
tls_end_of_pass(handshaking, c) ==
    IF handshaking /\ ~c.handshaking /\ c.wants_write THEN c
    ELSE IF (handshaking /\ ~c.handshaking) \/ ~handshaking THEN TlsReturn(c, "Ok")
    ELSE IF c.eof THEN TlsReturn(c, "UnexpectedEof")
    ELSE c

\* tls/conn.rs:104-150: one pass of the loop
tls_pass(c, a) ==
    IF ~a.poll_ok THEN TlsReturn(c, "IoError")
    ELSE Let(tls_write(c, a),
             LAMBDA w :
               IF w.pc = "done" THEN w
               ELSE IF ~c.handshaking /\ ~w.eof THEN TlsReturn(w, "Ok")
               ELSE Let(tls_read(w, a),
                        LAMBDA r : IF r.pc = "done" THEN r
                                   ELSE tls_end_of_pass(c.handshaking, r)))

\* the answers a pass can meet: poll returns flags it was asked for, and
\* a handshake that is done stays done
CanMeet(c, a) ==
    /\ a.out => c.wants_write
    /\ a.in => c.wants_read
    /\ a.machine.handshaking => c.handshaking

TlsPass(a) ==
    /\ call.fn = "tls_connect"
    /\ call.pc = "poll"
    /\ call.passes < MaxPasses
    /\ CanMeet(call, a)
    /\ call' = [tls_pass(call, a) EXCEPT !.passes = @ + 1]
    /\ UNCHANGED beside_transfer

NextTls == \E a \in Answers : TlsPass(a)

SpecTls == InitTls /\ [][NextTls]_vars

\* tls_connect returns Ok only with the handshake done, and one more pass
\* follows a pass in which the handshake is done with output pending
C30_OkAndOneMorePass ==
    /\ []((call.fn = "tls_connect" /\ call.pc = "done" /\ call.ret = "Ok")
            => ~call.handshaking)
    /\ [][(/\ call.fn = "tls_connect"
           /\ call.handshaking /\ ~call'.handshaking /\ call'.wants_write
           /\ call'.ret \notin {"IoError", "TlsError"})
            => call'.pc = "poll"]_vars

\* C30: for every interleaving of socket readiness, of the answers of
\* wants_read and wants_write and of the peer's EOF, the handshake loop
\* returns Ok only when the TLS machine is no longer handshaking; if EOF (a
\* write_tls or read_tls of zero bytes) is observed while the machine is
\* still handshaking it returns UnexpectedEof; and when the handshake
\* completes with output still pending it makes one more write pass before
\* it returns.
C30_EofInHandshake ==
    /\ C30_OkAndOneMorePass
    /\ []((/\ call.fn = "tls_connect"
            /\ call.eof_in_handshake
            /\ call.ret \notin {"IoError", "TlsError"})
             => (call.pc = "done" /\ call.ret = "UnexpectedEof"))

\* C30 as the code has it: the EOF ends the handshake with UnexpectedEof
\* when the machine is still handshaking at the end of the pass that met
\* it; a pass that writes zero bytes and then reads the records that
\* complete the handshake goes on as after any completed handshake.
C30_EofAtEndOfPass ==
    /\ C30_OkAndOneMorePass
    /\ [](call.fn = "tls_connect" =>
            /\ call.pc = "poll" => ~(call.eof /\ call.handshaking)
            /\ call.ret = "UnexpectedEof" => call.eof /\ call.handshaking
            /\ (call.pc = "done" /\ call.eof /\ call.handshaking)
                 => call.ret \in {"UnexpectedEof", "IoError", "TlsError"})

\* the third pass wrote what was pending when the second completed the
\* handshake, and tls_connect returned Ok
C30_WroteAfterHandshake ==
    /\ call.fn = "tls_connect"
    /\ call.pc = "done"
    /\ call.ret = "Ok"
    /\ call.passes = 3
    /\ call.writes = 2
    /\ ~call.eof
    /\ ~call.wants_write

\* a pass met EOF with the machine still handshaking
C30_MetEof ==
    /\ call.fn = "tls_connect"
    /\ call.ret = "UnexpectedEof"
    /\ call.passes = 2

----------------------------------------------------------------------------
(* The application write of the TLS adapter (spec section 4.3):
   TlsConn::tls_write of tls/conn.rs and of tls/connection.rs.  A step ends
   where the code awaits: in the send of write_tls, in check_interrupt *)

MaxPlain == 2           \* the bytes of the buffer of the caller
MaxTurns == 4           \* the sends one call is let to make

\* what the send under write_tls returns: no byte, some bytes, an I/O
\* error, or the error of a send that was cancelled while it was pending
PushResults == {"zero", "some", "IoError", "Cancelled"}

InitTlsWrite ==
    /\ NoWs
    /\ NoHttp
    /\ \E module \in {"conn", "connection"}, n \in 1..MaxPlain, pending \in BOOLEAN :
         call = [fn |-> "tls_write", module |-> module, pc |-> "write", buf |-> n,
                 wrote |-> 0, wants_write |-> pending, turns |-> 0, ret |-> "Pending",
                 value |-> 0]

WriteReturn(c, ret, value) == [c EXCEPT !.pc = "done", !.ret = ret, !.value = value]

\* the test of the while loop and what follows it (conn.rs:267-275)
after_flush(c) ==
    IF c.wants_write THEN [c EXCEPT !.pc = "push"]
    ELSE IF c.wrote # 0 THEN WriteReturn(c, "Ok", c.wrote)
    ELSE [c EXCEPT !.pc = "write"]

\* conn.rs:265: write(&mut self.tls) takes k bytes of the buffer
TlsWrite(ok, k) ==
    /\ call.fn = "tls_write"
    /\ call.pc = "write"
    /\ k <= call.buf
    /\ call.turns < MaxTurns
    /\ call' = IF ~ok THEN WriteReturn(call, "IoError", 0)
               ELSE after_flush([call EXCEPT !.wrote = k, !.turns = @ + 1,
                                             !.wants_write = @ \/ k > 0])
    /\ UNCHANGED beside_transfer

\* conn.rs:268-270: write_tls pushes records to the socket
TlsPush(result, left) ==
    /\ call.fn = "tls_write"
    /\ call.pc = "push"
    /\ call' = CASE result = "zero" -> WriteReturn(call, "Ok", call.wrote)
                 [] result = "some" -> [call EXCEPT !.pc = "check", !.wants_write = left]
                 [] OTHER -> WriteReturn(call, result, 0)
    /\ UNCHANGED beside_transfer

\* check_interrupt_if_zero(wrote) of conn.rs:270, and connection.rs:286-288
check_interrupt_if_zero(c, interrupted) ==
    IF ~interrupted THEN after_flush(c)
    ELSE IF c.wrote = 0 THEN WriteReturn(c, "Cancelled", 0)
    ELSE IF c.module = "conn" THEN after_flush(c)
    ELSE WriteReturn(c, "Ok", c.wrote)

TlsCheck(interrupted) ==
    /\ call.fn = "tls_write"
    /\ call.pc = "check"
    /\ call' = check_interrupt_if_zero(call, interrupted)
    /\ UNCHANGED beside_transfer

NextTlsWrite ==
    \/ \E ok \in BOOLEAN, k \in 0..MaxPlain : TlsWrite(ok, k)
    \/ \E result \in PushResults, left \in BOOLEAN : TlsPush(result, left)
    \/ \E interrupted \in BOOLEAN : TlsCheck(interrupted)

SpecTlsWrite == InitTlsWrite /\ [][NextTlsWrite]_vars

\* C31: a TLS application write never returns a cancellation error after
\* the TLS session has accepted one or more plaintext bytes: a cancellation
\* observed while the records are flushed is honoured only if the accepted
\* count is 0, and otherwise the call returns the accepted count; a push of
\* zero bytes to the socket ends the call with the count accepted so far.
C31_NoCancelAfterAccept ==
    (call.fn = "tls_write" /\ call.pc = "done") =>
        /\ call.ret = "Cancelled" => call.wrote = 0
        /\ call.ret = "Ok" => call.value = call.wrote

----------------------------------------------------------------------------
(* The WebSocket opening handshake (spec section 4.6): the key and the
   accept value of ws/handshake.rs, connect and handle_upgrade of
   ws/transfer.rs.  Texts are sequences of bytes *)

KEY_LENGTH == 16        \* Key::data
KEY_BUFFER == 18        \* the buffer Key::from decodes into

\* base64, the STANDARD engine: the character of a value of six bits
B64Char(v) ==
    IF v < 26 THEN 65 + v
    ELSE IF v < 52 THEN 97 + (v - 26)
    ELSE IF v < 62 THEN 48 + (v - 52)
    ELSE IF v = 62 THEN 43 ELSE 47

\* the value of a character; -1 for a character outside the alphabet
B64Val(c) ==
    IF c \in 65..90 THEN c - 65
    ELSE IF c \in 97..122 THEN c - 97 + 26
    ELSE IF c \in 48..57 THEN c - 48 + 52
    ELSE IF c = 43 THEN 62
    ELSE IF c = 47 THEN 63 ELSE -1

\* Engine::encode_slice
RECURSIVE b64_encode(_)
b64_encode(d) ==
    IF d = <<>> THEN <<>>
    ELSE IF Len(d) = 1
    THEN <<B64Char(d[1] \div 4), B64Char((d[1] % 4) * 16), 61, 61>>
    ELSE IF Len(d) = 2
    THEN <<B64Char(d[1] \div 4), B64Char((d[1] % 4) * 16 + d[2] \div 16),
           B64Char((d[2] % 16) * 4), 61>>
    ELSE <<B64Char(d[1] \div 4), B64Char((d[1] % 4) * 16 + d[2] \div 16),
           B64Char((d[2] % 16) * 4 + d[3] \div 64), B64Char(d[3] % 64)>>
         \o b64_encode(Drop(d, 3))

NoData == [ok |-> FALSE, data |-> <<>>]

\* the bytes of four characters, the last of the text or not; padding and
\* bits that are not zero after the last byte are refused
b64_quad(q, last) ==
    LET v == [i \in 1..4 |-> B64Val(q[i])]
    IN IF v[1] = -1 \/ v[2] = -1 THEN NoData
       ELSE IF q[3] = 61 /\ q[4] = 61 /\ last
       THEN IF v[2] % 16 # 0 THEN NoData
            ELSE [ok |-> TRUE, data |-> <<v[1] * 4 + v[2] \div 16>>]
       ELSE IF v[3] = -1 THEN NoData
       ELSE IF q[4] = 61 /\ last
       THEN IF v[3] % 4 # 0 THEN NoData
            ELSE [ok |-> TRUE,
                  data |-> <<v[1] * 4 + v[2] \div 16, (v[2] % 16) * 16 + v[3] \div 4>>]
       ELSE IF v[4] = -1 THEN NoData
       ELSE [ok |-> TRUE,
             data |-> <<v[1] * 4 + v[2] \div 16, (v[2] % 16) * 16 + v[3] \div 4,
                        (v[3] % 4) * 64 + v[4]>>]

RECURSIVE b64_decode(_)
b64_decode(txt) ==
    IF txt = <<>> THEN [ok |-> TRUE, data |-> <<>>]
    ELSE IF Len(txt) < 4 THEN NoData
    ELSE LET head == b64_quad(SubSeq(txt, 1, 4), Len(txt) = 4)
             rest == b64_decode(Drop(txt, 4))
         IN IF head.ok /\ rest.ok THEN [ok |-> TRUE, data |-> head.data \o rest.data]
            ELSE NoData

\* Engine::decode_slice into a buffer of KEY_BUFFER bytes: refused as well
\* when the text may decode to more than the buffer holds
decode_slice(txt) ==
    IF ((Len(txt) + 3) \div 4) * 3 > KEY_BUFFER THEN NoData ELSE b64_decode(txt)

\* a variant that takes a key of any length
Key_from_any_length(val) == decode_slice(val)

\* Key::from (handshake.rs:16-26)
Key_from(val) ==
    LET decoded == decode_slice(val)
    IN IF decoded.ok /\ Len(decoded.data) = KEY_LENGTH THEN decoded ELSE NoData

\* Key::encode
Key_encode(data) == b64_encode(data)

\* "258EAFA5-E914-47DA-95CA-C5AB0DC85B11", held as one byte that is no
\* character of base64
WEB_SOCKET_GUID == <<35>>

\* the SHA-1 sum of a text, then base64: a text that stands for it
Sha1Base64(txt) == <<36>> \o txt

\* Key::accept (handshake.rs:32-44)
Key_accept(data) == Sha1Base64(Key_encode(data) \o WEB_SOCKET_GUID)

\* u8::to_ascii_lowercase and str::eq_ignore_ascii_case
to_ascii_lowercase(c) == IF c \in 65..90 THEN c + 32 ELSE c

eq_ignore_ascii_case(a, b) ==
    /\ Len(a) = Len(b)
    /\ \A i \in 1..Len(a) : to_ascii_lowercase(a[i]) = to_ascii_lowercase(b[i])

\* str::split: the parts of s between the bytes c
RECURSIVE split(_, _)
split(s, c) ==
    LET first == split_once(s, c)
    IN IF first.found THEN <<first.key>> \o split(first.value, c) ELSE <<s>>

GET == <<71, 69, 84>>
HTTP_11 == <<72, 84, 84, 80, 47, 49, 46, 49>>
UPGRADE == <<85, 112, 103, 114, 97, 100, 101>>               \* "Upgrade"
WEBSOCKET == <<119, 101, 98, 115, 111, 99, 107, 101, 116>>     \* "websocket"
WEB_SOCKET_VERSION == <<49, 51>>                                   \* "13"

Absent == <<0>>      \* a header the message does not carry

\* parse_request_line (ws/transfer.rs:82-93); version 0 stands for None
parse_request_line(line) ==
    LET parts == split(line, 32)
    IN IF parts[1] # GET \/ Len(parts) < 3 THEN [version |-> 0, url |-> <<>>]
       ELSE [version |-> parse_version(parts[3]),
             url |-> IF parse_version(parts[3]) = 0 THEN <<>> ELSE parts[2]]

\* the check_header! macro (ws/transfer.rs:12-17)
ws_check_header(headers, name, value) ==
    headers[name] # Absent /\ eq_ignore_ascii_case(headers[name], value)

\* the variant that looks at the names of the headers only
upgrade_verdict_names_only(request) ==
    LET line == parse_request_line(request.line)
        headers == request.headers
    IN IF line.version = 0 THEN "InvalidStatusLine"
       ELSE IF line.version # 11 THEN "UnexpectedVersion"
       ELSE IF headers["connection"] = Absent THEN "InvalidClientRequest"
       ELSE IF headers["upgrade"] = Absent THEN "InvalidClientRequest"
       ELSE IF headers["sec-websocket-version"] = Absent THEN "InvalidClientRequest"
       ELSE IF headers["sec-websocket-key"] = Absent THEN "InvalidClientRequest"
       ELSE IF ~Key_from(headers["sec-websocket-key"]).ok THEN "InvalidKey"
       ELSE "Ok"

\* what handle_request and handle_upgrade make of a request they have read
\* (ws/transfer.rs:98-106 and 137-163)
upgrade_verdict(request) ==
    LET line == parse_request_line(request.line)
        headers == request.headers
    IN IF line.version = 0 THEN "InvalidStatusLine"
       ELSE IF line.version # 11 THEN "UnexpectedVersion"
       ELSE IF ~ws_check_header(headers, "connection", UPGRADE) THEN "InvalidClientRequest"
       ELSE IF ~ws_check_header(headers, "upgrade", WEBSOCKET) THEN "InvalidClientRequest"
       ELSE IF ~ws_check_header(headers, "sec-websocket-version", WEB_SOCKET_VERSION)
       THEN "InvalidClientRequest"
       ELSE IF headers["sec-websocket-key"] = Absent THEN "InvalidClientRequest"
       ELSE IF ~Key_from(headers["sec-websocket-key"]).ok THEN "InvalidKey"
       ELSE "Ok"

\* the lines handle_upgrade writes (ws/transfer.rs:173-189)
Response101(accept) ==
    << <<"HTTP/1.1", 101>>, <<"connection", UPGRADE>>, <<"upgrade", WEBSOCKET>>,
       <<"sec-websocket-accept", accept>>, <<"end">> >>

upgrade_response(request) ==
    Response101(Key_accept(Key_from(request.headers["sec-websocket-key"]).data))

HandshakeTicks == 2     \* handshake_timeout, in ticks of the clock

KeyData ==
    {[i \in 1..KEY_LENGTH |-> 0], [i \in 1..KEY_LENGTH |-> (i * 37) % 256],
     [i \in 1..KEY_LENGTH |-> 255]}

RequestLines ==
    {<<71, 69, 84, 32, 47, 32, 72, 84, 84, 80, 47, 49, 46, 49>>,                  \* "GET / HTTP/1.1"
     <<71, 69, 84, 32, 47, 99, 104, 97, 116, 32, 72, 84, 84, 80, 47, 49, 46, 49>>,     \* "GET /chat HTTP/1.1"
     <<80, 79, 83, 84, 32, 47, 32, 72, 84, 84, 80, 47, 49, 46, 49>>,              \* "POST / HTTP/1.1"
     <<103, 101, 116, 32, 47, 32, 72, 84, 84, 80, 47, 49, 46, 49>>,                  \* "get / HTTP/1.1"
     <<71, 69, 84, 32, 47, 32, 72, 84, 84, 80, 47, 49, 46, 48>>,                  \* "GET / HTTP/1.0"
     <<71, 69, 84, 32, 47>>,                                                      \* "GET /"
     <<71, 69, 84, 32, 47, 32, 72, 84, 84, 80, 47, 49, 46, 49, 32, 120>>,          \* "GET / HTTP/1.1 x"
     <<71, 69, 84, 32, 32, 72, 84, 84, 80, 47, 49, 46, 49>>}                      \* "GET  HTTP/1.1"

ConnectionValues == {Absent, UPGRADE, <<117, 112, 103, 114, 97, 100, 101>>, <<99, 108, 111, 115, 101>>}
UpgradeValues == {Absent, WEBSOCKET, <<87, 101, 98, 83, 111, 99, 107, 101, 116>>, <<104, 50, 99>>}
VersionValues == {Absent, WEB_SOCKET_VERSION, <<56>>}

\* keys of 16 bytes, of 15, 17 and 18, a key with a byte outside the
\* alphabet, one with bits set after its last byte, one of 28 characters
KeyValues ==
    {Absent}
    \cup {Key_encode(d) : d \in KeyData}
    \cup {b64_encode([i \in 1..n |-> i]) : n \in {15, 17, 18}}
    \cup {[i \in 1..24 |-> IF i = 5 THEN 42 ELSE Key_encode([j \in 1..KEY_LENGTH |-> 0])[i]],
          [i \in 1..24 |-> IF i = 22 THEN 66 ELSE Key_encode([j \in 1..KEY_LENGTH |-> 0])[i]],
          b64_encode([i \in 1..21 |-> i])}

Requests ==
    {[line |-> line,
      headers |-> [name \in {"connection", "upgrade", "sec-websocket-version",
                             "sec-websocket-key"} |->
                     CASE name = "connection" -> c
                       [] name = "upgrade" -> u
                       [] name = "sec-websocket-version" -> v
                       [] OTHER -> k]] :
        line \in RequestLines, c \in ConnectionValues, u \in UpgradeValues,
        v \in VersionValues, k \in KeyValues}

InitUpgrade ==
    /\ NoWs
    /\ NoHttp
    /\ \E request \in Requests :
         call = [fn |-> "handle_upgrade", pc |-> "request", request |-> request,
                 written |-> <<>>, elapsed |-> 0, ret |-> "Pending", session |-> FALSE]

\* handle_request and the checks of handle_upgrade (ws/transfer.rs:95-163):
\* the request is read, or the stream fails, and then it is validated
HandleRequest(read) ==
    /\ call.fn = "handle_upgrade"
    /\ call.pc = "request"
    /\ call' = IF ~read THEN [call EXCEPT !.pc = "done", !.ret = "IoError"]
               ELSE IF upgrade_verdict(call.request) # "Ok"
               THEN [call EXCEPT !.pc = "done", !.ret = upgrade_verdict(call.request)]
               ELSE [call EXCEPT !.pc = "write"]
    /\ UNCHANGED beside_transfer

\* the writes and the flush (ws/transfer.rs:173-193), then
\* WebSocket::server (ws/conn.rs:138): the socket takes the response up to
\* its line `sent`, and fails or not
WriteResponse(sent, ok) ==
    /\ call.fn = "handle_upgrade"
    /\ call.pc = "write"
    /\ sent \in Len(call.written)..Len(upgrade_response(call.request))
    /\ ok => sent > Len(call.written)
    /\ call' = LET c == [call EXCEPT !.written = SubSeq(upgrade_response(call.request), 1, sent)]
               IN IF ~ok THEN [c EXCEPT !.pc = "done", !.ret = "IoError"]
                  ELSE IF sent = Len(upgrade_response(call.request))
                  THEN [c EXCEPT !.pc = "done", !.ret = "Ok", !.session = TRUE]
                  ELSE c
    /\ UNCHANGED beside_transfer

UpgradeTick ==
    /\ call.fn = "handle_upgrade"
    /\ call.pc # "done"
    /\ call.elapsed < HandshakeTicks
    /\ call' = [call EXCEPT !.elapsed = @ + 1]
    /\ UNCHANGED beside_transfer

\* .timeout(handshake_timeout) of accept_websocket (ws/conn.rs:129-136)
UpgradeTimeout ==
    /\ call.fn = "handle_upgrade"
    /\ call.pc # "done"
    /\ call.elapsed = HandshakeTicks
    /\ call' = [call EXCEPT !.pc = "done", !.ret = "HandshakeTimeout"]
    /\ UNCHANGED beside_transfer

NextUpgrade ==
    \/ \E read \in BOOLEAN : HandleRequest(read)
    \/ \E sent \in 0..5, ok \in BOOLEAN : WriteResponse(sent, ok)
    \/ UpgradeTick
    \/ UpgradeTimeout

SpecUpgrade ==
    InitUpgrade /\ [][NextUpgrade]_vars /\ WF_vars(UpgradeTick) /\ WF_vars(UpgradeTimeout)

\* the request line is GET, a path and HTTP/1.1 and nothing else
C32_RequestLine(line) ==
    LET parts == split(line, 32)
    IN Len(parts) = 3 /\ parts[1] = GET /\ parts[2] # <<>> /\ parts[3] = HTTP_11

\* the request line begins with GET, a second part and a version 1.1
C32_RequestLineBegins(line) ==
    LET parts == split(line, 32)
    IN Len(parts) >= 3 /\ parts[1] = GET /\ parse_version(parts[3]) = 11

C32_Headers(request) ==
    /\ ws_check_header(request.headers, "connection", UPGRADE)
    /\ ws_check_header(request.headers, "upgrade", WEBSOCKET)
    /\ ws_check_header(request.headers, "sec-websocket-version", WEB_SOCKET_VERSION)
    /\ request.headers["sec-websocket-key"] # Absent
    /\ b64_decode(request.headers["sec-websocket-key"]).ok
    /\ Len(b64_decode(request.headers["sec-websocket-key"]).data) = KEY_LENGTH

\* the accept value of RFC 6455 for the key as it was sent
C32_Accept(request) ==
    Sha1Base64(request.headers["sec-websocket-key"] \o WEB_SOCKET_GUID)

C32_Failure == {"InvalidStatusLine", "UnexpectedVersion", "InvalidClientRequest", "InvalidKey"}

C32_Rest(valid) ==
    /\ call.written # <<>> =>
         /\ valid
         /\ IsPrefix(call.written, Response101(C32_Accept(call.request)))
    /\ call.session <=>
         call.ret = "Ok" /\ call.written = Response101(C32_Accept(call.request))
    /\ call.ret \in C32_Failure => call.written = <<>> /\ ~call.session
    /\ call.ret \in C32_Failure => ~valid
    /\ call.ret = "HandshakeTimeout" => call.elapsed = HandshakeTicks /\ ~call.session

\* C32 as it is stated: the upgrade writes the 101 response (Connection:
\* Upgrade, Upgrade: websocket, the computed Sec-WebSocket-Accept) only after
\* the whole request was validated: a request line "GET <path> HTTP/1.1", the
\* Connection, Upgrade and Sec-WebSocket-Version headers, a key that decodes
\* to exactly 16 bytes; on a validation failure no byte is written and no
\* session is produced; a handshake that does not finish within
\* handshake_timeout fails with HandshakeTimeout.
C32_WrittenAfterValidation ==
    /\ [](call.fn = "handle_upgrade" =>
            C32_Rest(C32_RequestLine(call.request.line) /\ C32_Headers(call.request)))
    /\ <>(call.fn = "handle_upgrade" => call.pc = "done")
    /\ [](call.fn = "handle_upgrade" /\ call.elapsed = HandshakeTicks
              => <>(call.pc = "done"))

\* C32, amended: the same, where the request line is one that begins with
\* GET, a second part (which may be empty) and a third part that
\* parse_version reads as 1.1; what follows the third part is ignored.
C32_WrittenAfterLenientValidation ==
    /\ [](call.fn = "handle_upgrade" =>
            C32_Rest(C32_RequestLineBegins(call.request.line) /\ C32_Headers(call.request)))
    /\ <>(call.fn = "handle_upgrade" => call.pc = "done")
    /\ [](call.fn = "handle_upgrade" /\ call.elapsed = HandshakeTicks
              => <>(call.pc = "done"))

\* the whole response was written for a valid request, and a session made
C32_Upgraded ==
    /\ call.fn = "handle_upgrade"
    /\ call.session
    /\ call.written = upgrade_response(call.request)
    /\ C32_RequestLine(call.request.line)

\* the line "GET / HTTP/1.1 x" was upgraded
C32_UpgradedLenient ==
    /\ call.fn = "handle_upgrade"
    /\ call.session
    /\ ~C32_RequestLine(call.request.line)

----------------------------------------------------------------------------
(* The client's side of the opening handshake: connect of ws/transfer.rs *)

SWITCHING_PROTOCOLS == 101

\* the request connect sends for a key (ws/transfer.rs:38-46), as the
\* server reads it
ClientRequest(data) ==
    [line |-> <<71, 69, 84, 32, 47, 99, 104, 97, 116, 32, 72, 84, 84, 80, 47, 49, 46, 49>>,
     headers |-> [name \in {"connection", "upgrade", "sec-websocket-version",
                            "sec-websocket-key"} |->
                    CASE name = "connection" -> UPGRADE
                      [] name = "upgrade" -> WEBSOCKET
                      [] name = "sec-websocket-version" -> WEB_SOCKET_VERSION
                      [] OTHER -> Key_encode(data)]]

\* a response as parse_response hands it over
WsResponse(status, connection, upgrade, accept) ==
    [status |-> status,
     headers |-> [name \in {"connection", "upgrade", "sec-websocket-accept"} |->
                    CASE name = "connection" -> connection
                      [] name = "upgrade" -> upgrade
                      [] OTHER -> accept]]

\* the response of a server of this code to a request, when it gives one
ServerResponse(request) ==
    LET lines == upgrade_response(request)
    IN WsResponse(lines[1][2], lines[2][2], lines[3][2], lines[4][2])

\* the variant that does not look at the accept value
connect_verdict_any_accept(response, accept) ==
    IF response.status # SWITCHING_PROTOCOLS THEN "ServerRejected"
    ELSE IF ~ws_check_header(response.headers, "connection", <<117, 112, 103, 114, 97, 100, 101>>)
    THEN "ServerRejected"
    ELSE IF ~ws_check_header(response.headers, "upgrade", WEBSOCKET) THEN "ServerRejected"
    ELSE "Ok"

\* the checks of connect on the response (ws/transfer.rs:53-77)
connect_verdict(response, accept) ==
    IF response.status # SWITCHING_PROTOCOLS THEN "ServerRejected"
    ELSE IF ~ws_check_header(response.headers, "connection", <<117, 112, 103, 114, 97, 100, 101>>)
    THEN "ServerRejected"
    ELSE IF ~ws_check_header(response.headers, "upgrade", WEBSOCKET) THEN "ServerRejected"
    ELSE IF ~ws_check_header(response.headers, "sec-websocket-accept", accept)
    THEN "ServerRejected"
    ELSE "Ok"

Lowered(txt) == [i \in 1..Len(txt) |-> to_ascii_lowercase(txt[i])]

\* the accept values a response may carry for a client with this key: none,
\* the right one, the right one in lower case, the one of another key, the
\* right one less its last byte
AcceptValues(data) ==
    {Absent, Key_accept(data), Lowered(Key_accept(data)),
     SubSeq(Key_accept(data), 1, Len(Key_accept(data)) - 1)}
    \cup {Key_accept(d) : d \in KeyData}

ServerResponses(data) ==
    {WsResponse(status, c, u, a) :
        status \in {SWITCHING_PROTOCOLS, 200, 400}, c \in ConnectionValues,
        u \in UpgradeValues, a \in AcceptValues(data)}
    \cup {ServerResponse(ClientRequest(data))}

TransferErrors == {"IoError", "ParseError", "ConnectTimeout"}

NoWsResponse == [status |-> 0]

InitConnect ==
    /\ NoWs
    /\ NoHttp
    /\ \E data \in KeyData :
         call = [fn |-> "connect", pc |-> "transfer", key |-> data,
                 response |-> NoWsResponse, elapsed |-> 0, ret |-> "Pending",
                 session |-> FALSE]

\* transfer returns an error (ws/transfer.rs:48-51)
TransferFails(error) ==
    /\ call.fn = "connect"
    /\ call.pc = "transfer"
    /\ call' = [call EXCEPT !.pc = "done", !.ret = error]
    /\ UNCHANGED beside_transfer

\* transfer returns a response, and connect checks it (ws/transfer.rs:48-79)
TransferReturns(response) ==
    /\ call.fn = "connect"
    /\ call.pc = "transfer"
    /\ call' = [call EXCEPT !.pc = "done", !.response = response,
                            !.ret = connect_verdict(response, Key_accept(call.key)),
                            !.session = connect_verdict(response, Key_accept(call.key)) = "Ok"]
    /\ UNCHANGED beside_transfer

ConnectTick ==
    /\ call.fn = "connect"
    /\ call.pc # "done"
    /\ call.elapsed < HandshakeTicks
    /\ call' = [call EXCEPT !.elapsed = @ + 1]
    /\ UNCHANGED beside_transfer

\* .timeout(timeout) around transfer (ws/transfer.rs:48-51)
ConnectTimeout ==
    /\ call.fn = "connect"
    /\ call.pc # "done"
    /\ call.elapsed = HandshakeTicks
    /\ call' = [call EXCEPT !.pc = "done", !.ret = "HandshakeTimeout"]
    /\ UNCHANGED beside_transfer

NextConnect ==
    \/ \E error \in TransferErrors : TransferFails(error)
    \/ \E response \in ServerResponses(call.key) : TransferReturns(response)
    \/ ConnectTick
    \/ ConnectTimeout

SpecConnect ==
    InitConnect /\ [][NextConnect]_vars /\ WF_vars(ConnectTick) /\ WF_vars(ConnectTimeout)

\* the response is one the opening handshake asks for, for this key
C33_Accepts(response, data) ==
    /\ response.status = 101
    /\ response.headers["connection"] # Absent
    /\ Lowered(response.headers["connection"]) = <<117, 112, 103, 114, 97, 100, 101>>
    /\ response.headers["upgrade"] # Absent
    /\ Lowered(response.headers["upgrade"]) = <<119, 101, 98, 115, 111, 99, 107, 101, 116>>
    /\ response.headers["sec-websocket-accept"] # Absent
    /\ Lowered(response.headers["sec-websocket-accept"])
         = Lowered(Sha1Base64(b64_encode(data) \o WEB_SOCKET_GUID))

\* C33: the client open succeeds only if the response status is 101 and the
\* response headers satisfy, case-insensitively, Connection = upgrade,
\* Upgrade = websocket and Sec-WebSocket-Accept = the accept value derived
\* from the key this client sent; any other response yields ServerRejected
\* and no session; a handshake exceeding handshake_timeout yields
\* HandshakeTimeout; and a client and a server built from this code agree on
\* the accept value for the same key.
C33_OpensOnlyOnAccept ==
    /\ [](call.fn = "connect" /\ call.pc = "done" =>
            /\ call.session <=> call.ret = "Ok"
            /\ call.ret = "Ok" => C33_Accepts(call.response, call.key)
            /\ call.response # NoWsResponse /\ ~C33_Accepts(call.response, call.key)
                 => call.ret = "ServerRejected"
            /\ call.ret = "HandshakeTimeout" => call.elapsed = HandshakeTicks
            /\ call.response = ServerResponse(ClientRequest(call.key)) => call.ret = "Ok")
    /\ [](call.fn = "connect" =>
            /\ upgrade_verdict(ClientRequest(call.key)) = "Ok"
            /\ Key_from(ClientRequest(call.key).headers["sec-websocket-key"]).data = call.key
            /\ ServerResponse(ClientRequest(call.key)).headers["sec-websocket-accept"]
                 = Key_accept(call.key))
    /\ [](call.fn = "connect" /\ call.elapsed = HandshakeTicks => <>(call.pc = "done"))

\* the client opened on the response of a server of this code
C33_OpenedOnServerResponse ==
    /\ call.fn = "connect"
    /\ call.session
    /\ call.response = ServerResponse(ClientRequest(call.key))

\* the client opened on an accept value in another case
C33_OpenedOnOtherCase ==
    /\ call.fn = "connect"
    /\ call.session
    /\ call.response.headers["sec-websocket-accept"] # Key_accept(call.key)

\* the client refused the accept value of another key
C33_RejectedOtherKey ==
    /\ call.fn = "connect"
    /\ call.ret = "ServerRejected"
    /\ call.response.status = 101
    /\ \E d \in KeyData \ {call.key} :
         call.response.headers["sec-websocket-accept"] = Key_accept(d)

----------------------------------------------------------------------------
\* C34: send_frame returns Ok only if every byte of the frame (header, close
\* code, payload) was written to the stream, and close_state gains Write
\* only once a Close frame has actually been sent: if writing a Close frame
\* fails, send_frame reports the error and can_write() stays true.
C34_OkOnlyWhenWritten ==
    \A p \in DOMAIN ws :
        res[p].call = "send_frame" =>
            /\ res[p].ret = "Ok" => res[p].wrote = Encode(res[p].hdr, res[p].arg)
            /\ (res[p].pre \in {"None", "Read"} /\ ~can_write(ws[p])) =>
                   /\ res[p].arg.op = "Close"
                   /\ res[p].wrote = Encode(res[p].hdr, res[p].arg)
            /\ (res[p].arg.op = "Close" /\ res[p].hdr # NoHeader
                    /\ res[p].wrote # Encode(res[p].hdr, res[p].arg)) =>
                   /\ res[p].ret # "Ok"
                   /\ can_write(ws[p])

----------------------------------------------------------------------------
\* C35: for any sequence of Reader and Frames operations on a session (calls
\* made after an earlier call returned an error and frame headers read
\* through read_frame_header included), the message in progress, when there
\* is one, is tagged Text or Binary and never Continuation, so that the
\* unreachable!() branches of the frame iterator are never reached.
C35_MessageTaggedTextOrBinary ==
    \A p \in DOMAIN ws :
        /\ ws[p].current_message # NoMessage =>
               ws[p].current_message.op \in {"Text", "Binary"}
        /\ res[p].ret # "Panic"

----------------------------------------------------------------------------
(* Control frames between the fragments of a message (stream.rs:224-245,
   315-395), checked on one frame at a time from every state a session
   reaches *)

\* a message is in progress exactly when a Continuation is expected, and it
\* is tagged with a data opcode
C40_Coherent(s) ==
    IF s.expect_continuation THEN s.current_message.op \in {"Text", "Binary"}
    ELSE s.current_message = NoMessage

\* a Ping or a Pong the reader takes has arrived whole
C40_ControlAhead(s, buf, h) ==
    /\ h.st = "Some"
    /\ h.hdr.op \in {"Ping", "Pong"}
    /\ h.hdr.fin
    /\ h.hdr.len <= MAX_LENGTH
    /\ h.hdr.len <= s.max_message_length
    /\ ~(s.is_client /\ h.hdr.mask # NoMask)
    /\ Len(buf) >= h.n + h.hdr.len

C40_Payload(buf, h) == Masked(SubSeq(buf, h.n + 1, h.n + h.hdr.len), h.hdr.mask)

\* r is what next() returns and f what read_frame returns for the frame ahead
C40_Verdict(s, buf, h, r, f) ==
    (can_read(s) /\ C40_Coherent(s)) =>
        /\ C40_ControlAhead(s, buf, h) =>
             /\ r.ret = "Frame"
             /\ r.frame = [kind |-> h.hdr.op, code |-> 0, payload |-> C40_Payload(buf, h)]
             /\ r.n = h.n + h.hdr.len
             /\ r.s.expect_continuation = s.expect_continuation
             /\ r.s.current_message = s.current_message
        /\ f.ret # "Panic"
        /\ (h.st = "Some" /\ ~is_control(h.hdr.op) /\ f.ret = "Continue") =>
             /\ ~h.hdr.fin
             /\ r.ret # "Panic"
             /\ f.s.expect_continuation
             /\ f.s.current_message =
                  [op |-> IF s.current_message = NoMessage THEN h.hdr.op
                          ELSE s.current_message.op,
                   buf |-> s.current_message.buf \o C40_Payload(buf, h)]
        /\ (h.st = "Some" /\ ~is_control(h.hdr.op) /\ f.ret = "Frame") =>
             /\ h.hdr.fin
             /\ f.frame =
                  [kind |-> IF s.current_message = NoMessage THEN h.hdr.op
                            ELSE s.current_message.op,
                   code |-> 0,
                   payload |-> s.current_message.buf \o C40_Payload(buf, h)]
             /\ ~f.s.expect_continuation
             /\ f.s.current_message = NoMessage
        /\ f.ret \in {"Frame", "Continue"} => C40_Coherent(f.s)

C40_MessageOfFragments ==
    \E p \in DOMAIN ws :
        /\ res[p].call = "next"
        /\ res[p].ret = "Frame"
        /\ res[p].frame = [kind |-> "Text", code |-> 0, payload |-> <<104, 105, 33>>]

----------------------------------------------------------------------------
\* C36: when the caller did not set a Host header, then on every hop of the
\* redirect loop the Host header sent with the request equals the host of
\* the URL requested on that hop (also after a redirect to another host).
C36_HostOfEveryHop ==
    (call.fn = "transfer" /\ call.caller_host = "" /\ call.requested # <<>>) =>
        call.sent_host[1] = call.requested[1].host

----------------------------------------------------------------------------
(* The halves of a split TLS connection (tls/conn.rs:312-487): TlsReadHalf
   and TlsWriteHalf share the session behind a mutex.  A step is what a half
   does between two awaits, the taking of the mutex being a step of its own.
   The bytes the session encodes are numbered. *)

MaxBuffered == 2        \* bytes the BufReader of the read half holds
MaxEncoded == 3         \* bytes the session encodes in a behaviour
ScratchSize == 2        \* the scratch buffer of the write half

Packets == {"plaintext", "nothing", "close_notify", "error"}

InitSplit ==
    /\ NoWs
    /\ NoHttp
    /\ call = [fn |-> "try_split", mutex |-> "free",
               r |-> [pc |-> "idle", ret |-> "Pending", value |-> 0],
               w |-> [pc |-> "idle", op |-> "none", buf |-> 0, wrote |-> 0,
                      scratch |-> <<>>, ret |-> "Pending"],
               plaintext |-> 0, closed |-> FALSE, buffered |-> 0, eof |-> FALSE,
               out |-> <<>>, encoded |-> 0, drained |-> <<>>, delivered |-> <<>>]

\* the peer closes its side of the socket
PeerEof ==
    /\ call.fn = "try_split"
    /\ ~call.eof
    /\ call' = [call EXCEPT !.eof = TRUE]
    /\ UNCHANGED beside_transfer

\* a half returns: the guard of the mutex, if it holds one, is dropped
ReadHalfReturn(c, ret, value) ==
    [c EXCEPT !.mutex = IF @ = "reader" THEN "free" ELSE @,
              !.r = [pc |-> "done", ret |-> ret, value |-> value]]

\* a variant that keeps the guard over the fill
before_fill_holding(c) == [c EXCEPT !.r.pc = "fill"]

\* conn.rs:366-368: drop(tls), then self.connection.fill().await
before_fill(c) == [c EXCEPT !.mutex = "free", !.r.pc = "fill"]

\* conn.rs:354-363: read_tls takes k bytes of the buffer, and
\* process_new_packets makes of them what `packet` says
after_read_tls(c, k, packet) ==
    CASE packet = "error" -> ReadHalfReturn([c EXCEPT !.buffered = @ - k], "TlsError", 0)
      [] packet = "plaintext" -> [c EXCEPT !.buffered = @ - k, !.plaintext = 1]
      [] packet = "close_notify" -> before_fill([c EXCEPT !.buffered = @ - k, !.closed = TRUE])
      [] OTHER -> before_fill([c EXCEPT !.buffered = @ - k])

\* conn.rs:346-367: one turn of the loop of TlsReadHalf::tls_read, up to
\* its return, its continue or its fill
read_half_pass(c, read_ok, k, packet) ==
    IF ~read_ok THEN ReadHalfReturn(c, "IoError", 0)
    ELSE IF c.plaintext > 0 THEN ReadHalfReturn([c EXCEPT !.plaintext = 0], "Ok", c.plaintext)
    ELSE IF c.buffered > 0 THEN after_read_tls(c, k, packet)
    ELSE before_fill(c)

\* TlsReadHalf::read is called
ReaderCall ==
    /\ call.fn = "try_split"
    /\ call.r.pc = "idle"
    /\ call' = [call EXCEPT !.r.pc = "lock"]
    /\ UNCHANGED beside_transfer

\* self.tls.lock().await (conn.rs:344 and 370)
ReaderLock ==
    /\ call.fn = "try_split"
    /\ call.r.pc = "lock"
    /\ call.mutex = "free"
    /\ call' = [call EXCEPT !.mutex = "reader", !.r.pc = "read"]
    /\ UNCHANGED beside_transfer

ReaderPass(read_ok, k, packet) ==
    /\ call.fn = "try_split"
    /\ call.r.pc = "read"
    /\ k \in 1..call.buffered \/ (call.buffered = 0 /\ k = 0)
    /\ call' = read_half_pass(call, read_ok, k, packet)
    /\ UNCHANGED beside_transfer

\* self.connection.fill().await? (conn.rs:368): n bytes arrive, none once
\* the socket is at EOF; then the mutex is asked for again
ReaderFill(n, ok) ==
    /\ call.fn = "try_split"
    /\ call.r.pc = "fill"
    /\ IF call.eof THEN n = 0 ELSE n > 0 /\ call.buffered + n <= MaxBuffered
    /\ call' = IF ~ok THEN ReadHalfReturn(call, "IoError", 0)
               ELSE [call EXCEPT !.buffered = @ + n, !.r.pc = "lock"]
    /\ UNCHANGED beside_transfer

WriteHalfReturn(c, ret) ==
    [c EXCEPT !.mutex = IF @ = "writer" THEN "free" ELSE @,
              !.w.pc = "done", !.w.ret = ret, !.w.scratch = <<>>]

\* tls.write_tls(&mut buf) and drop(tls) (conn.rs:415-417, 454-456): the
\* scratch buffer takes what it has room for of the output of the session
write_tls_scratch(c) ==
    LET n == IF Len(c.out) < ScratchSize THEN Len(c.out) ELSE ScratchSize
    IN [c EXCEPT !.mutex = "free", !.w.pc = "send",
                 !.w.scratch = SubSeq(c.out, 1, n),
                 !.out = Drop(c.out, n),
                 !.drained = @ \o SubSeq(c.out, 1, n)]

\* conn.rs:406-417 and 447-456: one turn of the loop of tls_write or of
\* flush, up to its return or its send; write takes k bytes
write_half_pass(c, write_ok, k) ==
    IF c.w.op = "flush"
    THEN IF c.out = <<>> THEN WriteHalfReturn(c, "Ok") ELSE write_tls_scratch(c)
    ELSE IF ~write_ok THEN WriteHalfReturn(c, "IoError")
    ELSE LET d == [c EXCEPT !.w.wrote = k, !.encoded = @ + k,
                            !.out = @ \o [i \in 1..k |-> c.encoded + i]]
         IN IF d.out = <<>> THEN WriteHalfReturn(d, "Ok") ELSE write_tls_scratch(d)

\* conn.rs:419-425 and 458: the socket took n bytes of the scratch buffer
write_half_sent(c, n, ok) ==
    IF ~ok THEN WriteHalfReturn(c, "IoError")
    ELSE LET d == [c EXCEPT !.delivered = @ \o SubSeq(c.w.scratch, 1, n),
                            !.w.scratch = <<>>]
         IN IF c.w.op = "flush" THEN [d EXCEPT !.w.pc = "lock"]
            ELSE IF n = 0 \/ c.w.wrote # 0 THEN WriteHalfReturn(d, "Ok")
            ELSE [d EXCEPT !.w.pc = "lock"]

\* TlsWriteHalf::write with a buffer of n bytes, or TlsWriteHalf::flush
WriterCall(op, n) ==
    /\ call.fn = "try_split"
    /\ call.w.pc \in {"idle", "done"}
    /\ call.w.ret # "IoError"
    /\ op = "flush" => n = 0
    /\ op = "write" => n > 0 /\ call.encoded + n <= MaxEncoded
    /\ call' = [call EXCEPT !.w = [pc |-> "lock", op |-> op, buf |-> n, wrote |-> 0,
                                   scratch |-> <<>>, ret |-> "Pending"]]
    /\ UNCHANGED beside_transfer

\* self.tls.lock().await (conn.rs:406 and 447)
WriterLock ==
    /\ call.fn = "try_split"
    /\ call.w.pc = "lock"
    /\ call.mutex = "free"
    /\ call' = [call EXCEPT !.mutex = "writer", !.w.pc = "encode"]
    /\ UNCHANGED beside_transfer

WriterPass(write_ok, k) ==
    /\ call.fn = "try_split"
    /\ call.w.pc = "encode"
    /\ IF call.w.op = "flush" THEN k = 0 /\ write_ok
       ELSE k <= call.w.buf /\ call.encoded + k <= MaxEncoded
    /\ call' = write_half_pass(call, write_ok, k)
    /\ UNCHANGED beside_transfer

\* self.connection.send(&buf, ...).await (conn.rs:419, 458)
WriterSend(n, ok) ==
    /\ call.fn = "try_split"
    /\ call.w.pc = "send"
    /\ n <= Len(call.w.scratch)
    /\ call' = write_half_sent(call, n, ok)
    /\ UNCHANGED beside_transfer

ReaderSteps ==
    \/ ReaderLock
    \/ \E read_ok \in BOOLEAN, k \in 0..MaxBuffered, packet \in Packets :
         ReaderPass(read_ok, k, packet)
    \/ \E n \in 0..MaxBuffered, ok \in BOOLEAN : ReaderFill(n, ok)

WriterSteps ==
    \/ WriterLock
    \/ \E write_ok \in BOOLEAN, k \in 0..MaxEncoded : WriterPass(write_ok, k)
    \/ \E n \in 0..ScratchSize, ok \in BOOLEAN : WriterSend(n, ok)

NextSplit ==
    \/ PeerEof
    \/ ReaderCall
    \/ \E op \in {"write", "flush"}, n \in 0..MaxEncoded : WriterCall(op, n)
    \/ ReaderSteps
    \/ WriterSteps

\* a half that can take a step again and again takes one: the scheduler
\* runs every task that is ready, and no half waits for the mutex for ever
SpecSplit ==
    InitSplit /\ [][NextSplit]_vars /\ SF_vars(ReaderSteps) /\ SF_vars(WriterSteps)

\* C37: a read on the split read half terminates once the socket has
\* reached EOF: when the socket delivers no more bytes and the session has
\* no plaintext left, the read returns (0 or an error) instead of going
\* round for ever between the TLS reader and the fill of the socket.
C37_ReturnsAtEof ==
    (call.fn = "try_split" /\ call.eof /\ call.buffered = 0 /\ call.plaintext = 0
        /\ call.r.pc \in {"lock", "read", "fill"})
      ~> (call.r.pc = "done")

\* C38: on the split write half, every byte of TLS output that write or
\* flush drains from the session into the scratch buffer is delivered to the
\* socket, in order and exactly once, also when a send takes fewer bytes
\* than it was offered; no byte of an encoded record is dropped.
C38_DrainedIsDelivered ==
    (call.fn = "try_split" /\ call.w.ret # "IoError") =>
        call.delivered \o call.w.scratch = call.drained

\* C39: neither half holds the mutex of the session while it is suspended
\* on socket I/O (fill or send); so a reader that waits for data never keeps
\* the writer from encoding and sending, and the halves cannot deadlock on
\* the mutex: whoever holds it is in code that runs without an await.
C39_NoMutexOverIo ==
    call.fn = "try_split" =>
        /\ call.r.pc = "fill" => call.mutex # "reader"
        /\ call.w.pc = "send" => call.mutex # "writer"
        /\ call.mutex = "reader" <=> call.r.pc = "read"
        /\ call.mutex = "writer" <=> call.w.pc = "encode"
        /\ (call.w.pc = "lock" /\ call.r.pc \in {"idle", "fill", "lock", "done"})
             => call.mutex = "free"
        /\ (call.r.pc = "lock" /\ call.w.pc \in {"idle", "send", "lock", "done"})
             => call.mutex = "free"

\* the writer encoded and sent while the reader waited for data
C39_WroteWhileReaderWaits ==
    /\ call.fn = "try_split"
    /\ call.r.pc = "fill"
    /\ ~call.eof
    /\ call.w.pc = "done"
    /\ call.w.ret = "Ok"
    /\ call.delivered # <<>>

====
